---- MODULE Spec2Model ----
(***************************************************************************)
(* Patch validation orchestrator: the dispatcher (ParallelValidator in      *)
(* runner/src/parallel_validator.py) and the worker's /test handler         *)
(* (run_test in runner/docker/tester/tester_service/tester.py).             *)
(*                                                                          *)
(* Seven specifications share the module's variables; each one drives one   *)
(* component and leaves the other components' variables at their idle       *)
(* values:                                                                  *)
(*   SpecValidate   - one call of validate_instance_on_worker               *)
(*   SpecRunTest    - one POST /test request handled by run_test            *)
(*   SpecBatch      - one validate_all batch, with its retry round          *)
(*   SpecDistribute - distribute_load applied to a drawn batch              *)
(*   SpecParse      - _parse_pytest or _parse_django_output applied to a    *)
(*                    drawn output text                                     *)
(*   SpecLabels     - run_django_tests_with_retry and                       *)
(*                    convert_to_django_test_labels on a drawn target       *)
(*   SpecEvaluate   - one call of evaluate_patch_docker                     *)
(*                                                                          *)
(* Python dicts are functions whose DOMAIN is the set of keys present, so   *)
(* that d.get(k, default) and `k in d` mean what they mean in the code.     *)
(* Python's None is the string None below.  Complexity weights are kept in  *)
(* tenths (3.0 -> 30) so that loads are integers.  An output text is a      *)
(* sequence of lines and a line the sequence of its whitespace-separated    *)
(* words, so that the parser's regular expressions and substring tests are  *)
(* predicates on words and on neighbouring words.                           *)
(***************************************************************************)
EXTENDS Integers, Sequences, FiniteSets, TLC

\* ------------------------------------------------------------------ bounds
\* largest count a worker reports for passed / failed / errors / collected
MaxCount == 1
\* largest number of instances in a validate_all batch
MaxBatch == 2
\* largest worker pool
MaxWorkers == 2
\* largest max_retries argument of validate_all
MaxRetriesArg == 2
\* largest batch handed to distribute_load on its own
MaxLen == 4
\* most distinct files among the node ids of a request
MaxNodeFiles == 2
\* largest count written in a drawn summary or "collected" line
MaxTests == 2

\* most segments of a drawn test target
MaxSegments == 4

\* most lines of the verbose listing in a drawn output of the Django runner
MaxVerbose == 2

\* ------------------------------------------------------------ Python values
None == "None"

\* d.get(k, default)
Get(d, k, default) == IF k \in DOMAIN d THEN d[k] ELSE default

Range(s) == {s[i] : i \in DOMAIN s}

\* ------------------------------------------------------------- the inputs
Repos == <<"django/django", "sympy/sympy", "psf/requests", "unlisted/repo">>

WorkerPool == <<"http://w1:8080", "http://w2:8080", "http://w3:8080", "http://w4:8080">>

\* the batch whose i-th instance belongs to repository repos[i]
InstancesOf(repos) == [i \in DOMAIN repos |-> [instance_id |-> i, repo |-> repos[i]]]

RepoSeqs(n) == UNION {[1..k -> Range(Repos)] : k \in 0..n}

\* the count keys of a worker response body, each present or absent
StatKeys == {"passed", "failed", "errors", "collected"}

StatsDicts == UNION {[S -> 0..MaxCount] : S \in SUBSET StatKeys}

\* what requests.post can give: a response with a status code (a 200 carries
\* the stats body), or an exception (connection error, read timeout)
Responses ==
    {[kind |-> "response", status |-> 200, body |-> b] : b \in StatsDicts}
    \cup {[kind |-> "response", status |-> s, body |-> <<>>] : s \in {422, 500, 504}}
    \cup {[kind |-> "raise", status |-> 0, body |-> <<>>],
          [kind |-> "timeout", status |-> 0, body |-> <<>>]}

\* requests.post raised: the worker was not reached, or did not answer in time
Raised(resp) == resp.kind \in {"raise", "timeout"}

NoResponse == [kind |-> "none", status |-> 0, body |-> <<>>]

NoResult == <<>>

VARIABLES
    \* validate_instance_on_worker
    v_pc, v_instance, v_worker, v_retry_count, response1, response2, v_exc, v_result,
    \* the requests posted so far: where to, and with which patch
    v_sent

v_vars == <<v_pc, v_instance, v_worker, v_retry_count, response1, response2, v_exc, v_result,
            v_sent>>

VARIABLES
    \* run_test: the request, the handler's position, the docker commands
    \* issued so far, the sandbox, the outcome a finished try body or a raised
    \* exception leaves for after the finally clause, and the HTTP response
    t_req, t_pc, t_trace, t_container, t_rm_calls, t_targets, t_stats, t_pending, t_response,
    \* the test-command invocations made so far with what each ended with, and
    \* the dependency installations attempted after a failure
    t_runs, t_installs, files_and_names

t_vars == <<t_req, t_pc, t_trace, t_container, t_rm_calls, t_targets, t_stats, t_pending,
            t_response, t_runs, t_installs, files_and_names>>

VARIABLES
    \* distribute_load on its own: the batch, the pool, the returned dict
    d_pc, d_instances, d_workers, d_assignments

d_vars == <<d_pc, d_instances, d_workers, d_assignments>>

VARIABLES
    \* ParallelValidator: its configuration and the batch given to validate_all
    worker_urls, max_workers_per_instance, instances, max_retries,
    \* the workers of the pool that are up: they answer GET /health and the
    \* test requests
    answering,
    \* validate_all: position, the first round's futures, the index of the
    \* future the collecting loop waits for, and the loop's accumulators
    b_pc, futures, next_future, all_results, failed_instances, processed_count,
    \* _retry_failed: its futures and its result list; the returned summary
    retry_futures, retry_results, summary

b_vars == <<worker_urls, max_workers_per_instance, instances, max_retries, answering,
            b_pc, futures, next_future, all_results, failed_instances, processed_count,
            retry_futures, retry_results, summary>>

VARIABLES
    \* _parse_pytest and _parse_django_output on their own: the parser that is
    \* called, the output text and the returned stats
    p_pc, p_parser, p_output, p_stats

p_vars == <<p_pc, p_parser, p_output, p_stats>>

VARIABLES
    \* run_django_tests_with_retry seen from its arguments: the target, the
    \* argument of every run of the runner, the outcome of the first and of the
    \* latest run; and the label convert_to_django_test_labels returns
    l_pc, l_path, l_invoked, l_first, l_last, l_label

l_vars == <<l_pc, l_path, l_invoked, l_first, l_last, l_label>>

VARIABLES
    \* evaluate_patch_docker: its position, the instance, what the tester
    \* service answered, the result dict
    e_pc, e_instance, e_response, e_result

e_vars == <<e_pc, e_instance, e_response, e_result>>

vars == <<v_vars, t_vars, d_vars, b_vars, p_vars, l_vars, e_vars>>

\* -------------------------------------------- validate_instance_on_worker
\* str(e) of the exception raised for a non-200 response, or by requests.post
ExceptionText(resp) ==
    IF resp.kind = "raise" THEN "ConnectionError"
    ELSE IF resp.kind = "timeout" THEN "ReadTimeout"
    ELSE CASE resp.status = 422 -> "Worker returned 422"
           [] resp.status = 500 -> "Worker returned 500"
           [] resp.status = 504 -> "Worker returned 504"
           [] OTHER -> "Worker returned ???"

\* a run passed: no failures, no errors, and at least some tests ran
RunPassedNoCollected(stats) ==
    /\ Get(stats, "failed", 0) = 0
    /\ Get(stats, "errors", 0) = 0
    /\ Get(stats, "passed", 0) > 0

RunPassed(stats) ==
    /\ Get(stats, "failed", 0) = 0
    /\ Get(stats, "errors", 0) = 0
    /\ (Get(stats, "passed", 0) > 0 \/ Get(stats, "collected", 0) > 0)

IsValidWithFixOnly(test_only_passed, with_fix_passed) == with_fix_passed

IsValid(test_only_passed, with_fix_passed) == ~test_only_passed /\ with_fix_passed

\* f"Expected fail->pass, got {test_only_passed}->{with_fix_passed}"
ContractError(test_only_passed, with_fix_passed) ==
    CASE test_only_passed /\ with_fix_passed -> "Expected fail->pass, got True->True"
      [] test_only_passed /\ ~with_fix_passed -> "Expected fail->pass, got True->False"
      [] ~test_only_passed /\ with_fix_passed -> "Expected fail->pass, got False->True"
      [] OTHER -> "Expected fail->pass, got False->False"

\* the dict returned when both requests answered 200
AnalyzedResult(instance, worker_url, result1, result2) ==
    LET test_only_passed == RunPassed(result1)
        with_fix_passed == RunPassed(result2)
        is_valid == IsValid(test_only_passed, with_fix_passed)
    IN  [instance_id |-> instance.instance_id,
         repo |-> instance.repo,
         valid |-> is_valid,
         worker |-> worker_url,
         test_only |-> [passed |-> test_only_passed, stats |-> result1],
         with_fix |-> [passed |-> with_fix_passed, stats |-> result2],
         error |-> IF is_valid THEN None
                   ELSE ContractError(test_only_passed, with_fix_passed)]

\* an except branch that records that the run failed and no more
ErrorResultBare(instance, worker_url, retry_count, text) ==
    [instance_id |-> instance.instance_id,
     repo |-> instance.repo,
     valid |-> FALSE,
     worker |-> None,
     error |-> "error",
     retry_count |-> retry_count]

\* the dict returned by the except branch
ErrorResult(instance, worker_url, retry_count, text) ==
    [instance_id |-> instance.instance_id,
     repo |-> instance.repo,
     valid |-> FALSE,
     worker |-> worker_url,
     error |-> text,
     retry_count |-> retry_count]

\* the whole call, given what the two requests answer (the second is sent
\* only when the first answered 200)
ValidateInstanceOnWorker(instance, worker_url, retry_count, r1, r2) ==
    IF Raised(r1) \/ r1.status # 200
    THEN ErrorResult(instance, worker_url, retry_count, ExceptionText(r1))
    ELSE IF Raised(r2) \/ r2.status # 200
    THEN ErrorResult(instance, worker_url, retry_count, ExceptionText(r2))
    ELSE AnalyzedResult(instance, worker_url, r1.body, r2.body)

VInit ==
    /\ v_pc = "post1"
    /\ v_instance \in Range(InstancesOf(<<"django/django", "psf/requests">>))
    /\ v_worker \in {WorkerPool[k] : k \in 1..MaxWorkers}
    /\ v_retry_count \in 0..1
    /\ response1 = NoResponse
    /\ response2 = NoResponse
    /\ v_exc = None
    /\ v_result = NoResult
    /\ v_sent = <<>>

VIdle ==
    /\ v_pc = "idle"
    /\ v_instance = NoResult
    /\ v_worker = None
    /\ v_retry_count = 0
    /\ response1 = NoResponse
    /\ response2 = NoResponse
    /\ v_exc = None
    /\ v_result = NoResult
    /\ v_sent = <<>>

\* a first request whose failure does not end the attempt
ValidatePost1ThenPost2 ==
    /\ v_pc = "post1"
    /\ v_sent' = Append(v_sent, [url |-> v_worker, patch |-> "test_patch"])
    /\ \E resp \in Responses :
        /\ response1' = resp
        /\ v_exc' = v_exc
        /\ v_pc' = "post2"
    /\ UNCHANGED <<v_instance, v_worker, v_retry_count, response2, v_result>>

\* requests.post(.../test, patch = test_patch), then the status check
ValidatePost1 ==
    /\ v_pc = "post1"
    /\ v_sent' = Append(v_sent, [url |-> v_worker, patch |-> "test_patch"])
    /\ \E resp \in Responses :
        /\ response1' = resp
        /\ IF Raised(resp) \/ resp.status # 200
           THEN v_exc' = ExceptionText(resp) /\ v_pc' = "except"
           ELSE v_exc' = v_exc /\ v_pc' = "post2"
    /\ UNCHANGED <<v_instance, v_worker, v_retry_count, response2, v_result>>

\* requests.post(.../test, patch = patch + test_patch), then the status check
ValidatePost2 ==
    /\ v_pc = "post2"
    /\ v_sent' = Append(v_sent, [url |-> v_worker, patch |-> "patch + test_patch"])
    /\ \E resp \in Responses :
        /\ response2' = resp
        /\ IF Raised(resp) \/ resp.status # 200
           THEN v_exc' = ExceptionText(resp) /\ v_pc' = "except"
           ELSE v_exc' = v_exc /\ v_pc' = "analyze"
    /\ UNCHANGED <<v_instance, v_worker, v_retry_count, response1, v_result>>

\* "Analyze results" and the normal return
ValidateAnalyze ==
    /\ v_pc = "analyze"
    /\ v_result' = AnalyzedResult(v_instance, v_worker, response1.body, response2.body)
    /\ v_pc' = "done"
    /\ UNCHANGED <<v_instance, v_worker, v_retry_count, response1, response2, v_exc, v_sent>>

\* except Exception as e: the error dict is returned
ValidateExcept ==
    /\ v_pc = "except"
    /\ v_result' = ErrorResult(v_instance, v_worker, v_retry_count, v_exc)
    /\ v_pc' = "done"
    /\ UNCHANGED <<v_instance, v_worker, v_retry_count, response1, response2, v_exc, v_sent>>

VNext ==
    \/ ValidatePost1 /\ UNCHANGED <<t_vars, d_vars, b_vars, p_vars, l_vars, e_vars>>
    \/ ValidatePost2 /\ UNCHANGED <<t_vars, d_vars, b_vars, p_vars, l_vars, e_vars>>
    \/ ValidateAnalyze /\ UNCHANGED <<t_vars, d_vars, b_vars, p_vars, l_vars, e_vars>>
    \/ ValidateExcept /\ UNCHANGED <<t_vars, d_vars, b_vars, p_vars, l_vars, e_vars>>

\* ------------------------------------------------------------------ run_test
\* r.patch: empty, whitespace only, or a diff
Patches == {"", "   ", "diff"}

\* a patch step that skips the empty patch only
PatchNotEmpty(patch) == patch # ""

\* if r.patch and r.patch.strip()
PatchGiven(patch) == patch # "" /\ patch # "   "

\* r.test_files: absent, [], ["all"], a list of file paths, or a list of
\* dotted test labels
TestFilesArgs == {"none", "empty", "all", "files", "labels"}

Requests ==
    [patch : Patches, fail_to_pass : BOOLEAN, pass_to_pass : BOOLEAN,
     test_files : TestFilesArgs, django : BOOLEAN]

\* what the two parsers return: five counts
ParsedStats ==
    [collected : 0..MaxCount, passed : 0..MaxCount, failed : 0..MaxCount,
     errors : 0..MaxCount, skipped : 0..MaxCount]

NoStats == <<>>

NoOutcome == [kind |-> "none", status |-> 0, body |-> <<>>]

\* an early return that reports the contract as met
NoTestsBodyContractMet ==
    [passed |-> 0, failed |-> 0, errors |-> 0, log_tail |-> "No test files found in patch",
     test_files_run |-> "[]", contract_met |-> TRUE, reason |-> "No tests to run"]

\* the body of the early return when there is nothing to run
NoTestsBody ==
    [passed |-> 0, failed |-> 0, errors |-> 0, log_tail |-> "No test files found in patch",
     test_files_run |-> "[]", contract_met |-> FALSE, reason |-> "No tests to run"]

TInit ==
    /\ t_req \in Requests
    /\ t_pc = "setup"
    /\ t_trace = <<>>
    /\ t_container = "absent"
    /\ t_rm_calls = 0
    /\ t_targets = "unset"
    /\ t_stats = NoStats
    /\ t_runs = <<>>
    /\ t_installs = 0
    /\ files_and_names = 0
    /\ t_pending = NoOutcome
    /\ t_response = NoOutcome

TIdle ==
    /\ t_req = <<>>
    /\ t_pc = "idle"
    /\ t_trace = <<>>
    /\ t_container = "absent"
    /\ t_rm_calls = 0
    /\ t_targets = "unset"
    /\ t_stats = NoStats
    /\ t_runs = <<>>
    /\ t_installs = 0
    /\ files_and_names = 0
    /\ t_pending = NoOutcome
    /\ t_response = NoOutcome

\* a patch failure that is noted but does not leave the try body
RaiseUnlessPatchFailure(status) ==
    /\ t_pending' = [kind |-> "raise", status |-> status, body |-> <<>>]
    /\ t_pc' = IF status = 422 THEN "select" ELSE "finally"

\* an exception leaves the try body: the finally clause runs next, then the
\* exception reaches FastAPI, which answers with its status
Raise(status) ==
    /\ t_pending' = [kind |-> "raise", status |-> status, body |-> <<>>]
    /\ t_pc' = "finally"

\* a return statement inside the try body: the finally clause runs next
Return(body) ==
    /\ t_pending' = [kind |-> "return", status |-> 200, body |-> body]
    /\ t_pc' = "finally"

\* before the try: docker pull (its failure ignored), the scratch directory
RunTestSetup ==
    /\ t_pc = "setup"
    /\ t_trace' = Append(t_trace, "docker pull")
    /\ t_pc' = "start"
    /\ UNCHANGED <<t_req, t_container, t_rm_calls, t_targets, t_stats, t_pending, t_response, t_runs, t_installs, files_and_names>>

\* before the try: subprocess.run or os.makedirs raises (no docker binary, no
\* scratch disk); nothing was started and the finally clause is not in force
RunTestSetupRaises ==
    /\ t_pc = "setup"
    /\ t_response' = [kind |-> "raise", status |-> 500, body |-> <<>>]
    /\ t_pc' = "done"
    /\ UNCHANGED <<t_req, t_trace, t_container, t_rm_calls, t_targets, t_stats, t_pending, t_runs, t_installs, files_and_names>>

\* 1. docker run -d ... sleep infinity, check=True
RunTestStartContainer ==
    /\ t_pc = "start"
    /\ t_trace' = Append(t_trace, "docker run")
    /\ \/ /\ t_container' = "running"
          /\ t_pc' = "find_repo"
          /\ UNCHANGED t_pending
       \/ /\ t_container' = t_container
          /\ Raise(500)
    /\ UNCHANGED <<t_req, t_rm_calls, t_targets, t_stats, t_response, t_runs, t_installs, files_and_names>>

\* 2. find the repository (or fall back to /testbed), 2.5 verify python
RunTestFindRepo ==
    /\ t_pc = "find_repo"
    /\ t_trace' = Append(t_trace, "find repo")
    /\ t_pc' = "apply_patch"
    /\ UNCHANGED <<t_req, t_container, t_rm_calls, t_targets, t_stats, t_pending, t_response, t_runs, t_installs, files_and_names>>

\* 3. git apply, skipped for an empty or whitespace-only patch; 3.5 preflight
RunTestApplyPatch ==
    /\ t_pc = "apply_patch"
    /\ IF PatchGiven(t_req.patch)
       THEN /\ t_trace' = Append(t_trace, "git apply")
            /\ \/ t_pc' = "select" /\ UNCHANGED t_pending
               \/ Raise(422)
       ELSE /\ t_trace' = t_trace
            /\ t_pc' = "select"
            /\ UNCHANGED t_pending
    /\ UNCHANGED <<t_req, t_container, t_rm_calls, t_targets, t_stats, t_response, t_runs, t_installs, files_and_names>>

\* 4. which tests to run: the explicit node ids whenever a list is given;
\* else the given files unless test_files is absent, empty or ["all"]; else
\* the changed test files
SelectTargetsFilesFirst(req, changed_tests) ==
    IF req.test_files \in {"files", "labels"} THEN "given"
    ELSE IF req.fail_to_pass \/ req.pass_to_pass THEN "nodes"
    ELSE changed_tests

SelectTargets(req, changed_tests) ==
    IF req.fail_to_pass \/ req.pass_to_pass THEN "nodes"
    ELSE IF req.test_files \in {"none", "empty", "all"} THEN changed_tests
    ELSE "given"

\* changed_tests is what git diff --name-only shows, else what the headers of
\* the patch text name, else nothing; it is not collected in explicit mode
RunTestSelect ==
    /\ t_pc = "select"
    /\ t_trace' = Append(t_trace, "select tests")
    /\ \E changed_tests \in {"none", "diff", "headers"} :
        /\ (t_req.fail_to_pass \/ t_req.pass_to_pass) => changed_tests = "none"
        /\ changed_tests = "headers" => PatchGiven(t_req.patch)
        /\ LET test_files_to_run == SelectTargets(t_req, changed_tests)
           IN  /\ t_targets' = test_files_to_run
               /\ IF test_files_to_run = "none"
                  THEN Return(NoTestsBody)
                  ELSE t_pc' = "execute" /\ UNCHANGED t_pending
    /\ UNCHANGED <<t_req, t_container, t_rm_calls, t_stats, t_response, t_runs, t_installs, files_and_names>>

\* 5. the adapter run_test calls
ExecPath(req, targets) ==
    IF req.django THEN "django"
    ELSE IF targets = "nodes" THEN "pytest_nodes" ELSE "pytest_files"

\* what one test-command invocation ends with, as far as the adapters look:
\* exit code 0; a non-zero exit code with no pattern they know; with a
\* missing-fixture or missing-module message; with "ERROR collecting" or
\* "no tests ran" (pytest); with another import error (Django)
RunOutcomes(path) ==
    IF path = "django" THEN {"ok", "fails", "missing", "apperror"}
    ELSE {"ok", "fails", "missing", "collecting"}

\* an invocation whose subprocess.TimeoutExpired is swallowed
InvokeIgnoringTimeout(what, outcome, next_pc) ==
    /\ t_runs' = Append(t_runs, [what |-> what, outcome |-> outcome])
    /\ t_pc' = IF outcome = "timeout" THEN "parse" ELSE next_pc
    /\ UNCHANGED t_pending

\* subprocess.run(cmd, timeout = timeout): subprocess.TimeoutExpired leaves the
\* adapter and the try body and is raised again as HTTPException(504)
Invoke(what, outcome, next_pc) ==
    /\ t_runs' = Append(t_runs, [what |-> what, outcome |-> outcome])
    /\ IF outcome = "timeout"
       THEN Raise(504)
       ELSE t_pc' = next_pc /\ UNCHANGED t_pending

\* what an adapter does with the result of its first invocation
AfterFirstRun(path, outcome, named) ==
    CASE path = "pytest_files" -> IF outcome = "missing" THEN "install" ELSE "parse"
      [] path = "pytest_nodes" ->
            IF outcome = "collecting" THEN (IF named THEN "fallback" ELSE "parse")
            ELSE IF outcome = "missing" THEN "install" ELSE "parse"
      [] OTHER -> IF outcome = "missing" THEN "install" ELSE "labels"

\* the first invocation; files_and_names: the number of distinct files of the
\* node ids that have a "::" part, counted when the collection failed
RunTestExecute ==
    /\ t_pc = "execute"
    /\ t_trace' = Append(t_trace, "run tests")
    /\ LET path == ExecPath(t_req, t_targets)
       IN  \E outcome \in RunOutcomes(path) \cup {"timeout"}, files \in 0..MaxNodeFiles :
            /\ Invoke("first", outcome, AfterFirstRun(path, outcome, files > 0))
            /\ files_and_names' =
                    IF path = "pytest_nodes" /\ outcome = "collecting" THEN files ELSE 0
    /\ UNCHANGED <<t_req, t_container, t_rm_calls, t_targets, t_stats, t_response, t_installs>>

\* _maybe_install_test_fixtures, which answers True once it has run pip for
\* the fixtures it recognised; install_missing_module, which answers whether
\* pip succeeded
RunTestInstall ==
    /\ t_pc = "install"
    /\ t_installs' = t_installs + 1
    /\ IF ExecPath(t_req, t_targets) = "django"
       THEN \E installed \in BOOLEAN : t_pc' = IF installed THEN "rerun" ELSE "labels"
       ELSE t_pc' = "rerun"
    /\ UNCHANGED <<t_req, t_trace, t_container, t_rm_calls, t_targets, t_stats, t_pending,
                   t_response, t_runs, files_and_names>>

\* a second invocation that looks for a missing fixture again, as if
\* retry_count were not passed on
RunTestRerunUnlimited ==
    /\ t_pc = "rerun"
    /\ LET path == ExecPath(t_req, t_targets)
       IN  \E outcome \in RunOutcomes(path) \cup {"timeout"} :
            Invoke("rerun", outcome,
                   IF path = "django" THEN "labels"
                   ELSE IF outcome = "missing" THEN "install" ELSE "parse")
    /\ UNCHANGED <<t_req, t_trace, t_container, t_rm_calls, t_targets, t_stats, t_response,
                   t_installs, files_and_names>>

\* the same invocation once more: retry_count = 1 in the pytest adapters, the
\* second run_django_tests call in the Django one
RunTestRerun ==
    /\ t_pc = "rerun"
    /\ LET path == ExecPath(t_req, t_targets)
       IN  \E outcome \in RunOutcomes(path) \cup {"timeout"} :
            Invoke("rerun", outcome, IF path = "django" THEN "labels" ELSE "parse")
    /\ UNCHANGED <<t_req, t_trace, t_container, t_rm_calls, t_targets, t_stats, t_response,
                   t_installs, files_and_names>>

NumRuns(what) == Cardinality({i \in DOMAIN t_runs : t_runs[i].what = what})

\* run_pytest_with_nodes after a collection failure: file by file with -k,
\* until one exits 0 or prints "passed", or the files are exhausted
RunTestFallback ==
    /\ t_pc = "fallback"
    /\ \E outcome \in RunOutcomes("pytest_nodes") \cup {"timeout"},
          passed_seen \in BOOLEAN :
        LET more == NumRuns("fallback") + 1 < files_and_names
        IN  Invoke("fallback", outcome,
                   IF outcome = "ok" \/ passed_seen \/ ~more THEN "parse" ELSE "fallback")
    /\ UNCHANGED <<t_req, t_trace, t_container, t_rm_calls, t_targets, t_stats, t_response,
                   t_installs, files_and_names>>

\* whether any target contains "/" or ends with ".py": never for the labels
\* made from node ids, the caller's choice for given test_files, and for
\* changed files whatever their names are
LooksLikePaths(req, targets) ==
    CASE targets = "nodes" -> {FALSE}
      [] targets = "given" -> {req.test_files = "files"}
      [] OTHER -> BOOLEAN

\* run_django_tests_with_retry, second check: the last result failed, the
\* error text of the FIRST run names an import error, and the targets look
\* like file paths
ConvertLabels(first_outcome, last_outcome, pathlike) ==
    /\ last_outcome # "ok"
    /\ first_outcome \in {"missing", "apperror"}
    /\ pathlike

RunTestDjangoLabels ==
    /\ t_pc = "labels"
    /\ \E pathlike \in LooksLikePaths(t_req, t_targets) :
        IF ConvertLabels(t_runs[1].outcome, t_runs[Len(t_runs)].outcome, pathlike)
        THEN \E outcome \in RunOutcomes("django") \cup {"timeout"} :
                Invoke("converted", outcome, "parse")
        ELSE t_pc' = "parse" /\ UNCHANGED <<t_runs, t_pending>>
    /\ UNCHANGED <<t_req, t_trace, t_container, t_rm_calls, t_targets, t_stats, t_response,
                   t_installs, files_and_names>>

\* the parser of the repository's runner
RunTestParse ==
    /\ t_pc = "parse"
    /\ t_trace' = Append(t_trace, "parse")
    /\ t_stats' \in ParsedStats
    /\ t_pc' = "contract"
    /\ UNCHANGED <<t_req, t_container, t_rm_calls, t_targets, t_pending, t_response,
                   t_runs, t_installs, files_and_names>>

\* a contract check that, without a patch, wants failures whichever list was
\* supplied
ContractMetRequiringFailures(req, stats) ==
    IF req.fail_to_pass \/ req.pass_to_pass
    THEN IF PatchGiven(req.patch)
         THEN ~(stats.failed > 0 \/ stats.errors > 0)
         ELSE ~(stats.failed = 0 /\ stats.errors = 0)
    ELSE TRUE

\* a contract check that is made whether or not a list was supplied
ContractMetInEveryMode(req, stats) ==
    IF PatchGiven(req.patch)
    THEN ~(stats.failed > 0 \/ stats.errors > 0)
    ELSE ~(stats.failed = 0 /\ stats.errors = 0)

\* a contract check that looks at the failed count only
ContractMetIgnoringErrors(req, stats) ==
    IF req.fail_to_pass \/ req.pass_to_pass
    THEN IF PatchGiven(req.patch)
         THEN ~(stats.failed > 0)
         ELSE ~(req.fail_to_pass /\ stats.failed = 0)
    ELSE TRUE

\* the contract check on the explicit lists
ContractMet(req, stats) ==
    IF req.fail_to_pass \/ req.pass_to_pass
    THEN IF PatchGiven(req.patch)
         THEN ~(stats.failed > 0 \/ stats.errors > 0)
         ELSE ~(req.fail_to_pass /\ stats.failed = 0 /\ stats.errors = 0)
    ELSE TRUE

\* contract_reason; the f-string of the with-patch case is kept as its pieces
ContractReason(req, stats) ==
    IF ContractMet(req, stats) THEN <<"OK">>
    ELSE IF PatchGiven(req.patch)
         THEN <<"With patch: ", stats.failed, " failed, ", stats.errors, " errors (expected 0)">>
         ELSE <<"Without patch: no failures in FAIL_TO_PASS tests (expected failures)">>

\* the contract check and the normal return
RunTestContract ==
    /\ t_pc = "contract"
    /\ t_trace' = Append(t_trace, "contract")
    /\ Return([collected |-> t_stats.collected, passed |-> t_stats.passed,
               failed |-> t_stats.failed, errors |-> t_stats.errors,
               skipped |-> t_stats.skipped, contract_met |-> ContractMet(t_req, t_stats),
               contract_reason |-> ContractReason(t_req, t_stats)])
    /\ UNCHANGED <<t_req, t_container, t_rm_calls, t_targets, t_stats, t_response,
                   t_runs, t_installs, files_and_names>>

\* any other exception raised by a step of the try body (a docker command
\* that cannot be spawned, a KeyError on the parsed stats, ...)
RunTestUnhandled ==
    /\ t_pc \in {"find_repo", "apply_patch", "select", "execute", "install", "rerun",
                "fallback", "labels", "parse", "contract"}
    /\ Raise(500)
    /\ UNCHANGED <<t_req, t_trace, t_container, t_rm_calls, t_targets, t_stats, t_response, t_runs, t_installs, files_and_names>>

\* a removal placed at the end of the try body instead of in a finally clause
RunTestFinallyOnReturnOnly ==
    /\ t_pc = "finally"
    /\ IF t_pending.kind = "return" /\ t_targets # "none"
       THEN /\ t_trace' = Append(t_trace, "docker rm")
            /\ t_rm_calls' = t_rm_calls + 1
            /\ t_container' = IF t_container = "running" THEN "removed" ELSE t_container
       ELSE UNCHANGED <<t_trace, t_rm_calls, t_container>>
    /\ t_response' = t_pending
    /\ t_pc' = "done"
    /\ UNCHANGED <<t_req, t_targets, t_stats, t_pending, t_runs, t_installs, files_and_names>>

\* finally: docker rm -f, whatever left the try body; then the return value
\* or the exception goes out
RunTestFinally ==
    /\ t_pc = "finally"
    /\ t_trace' = Append(t_trace, "docker rm")
    /\ t_rm_calls' = t_rm_calls + 1
    /\ t_container' = IF t_container = "running" THEN "removed" ELSE t_container
    /\ t_response' = t_pending
    /\ t_pc' = "done"
    /\ UNCHANGED <<t_req, t_targets, t_stats, t_pending, t_runs, t_installs, files_and_names>>

TNext ==
    \/ RunTestSetup /\ UNCHANGED <<v_vars, d_vars, b_vars, p_vars, l_vars, e_vars>>
    \/ RunTestSetupRaises /\ UNCHANGED <<v_vars, d_vars, b_vars, p_vars, l_vars, e_vars>>
    \/ RunTestStartContainer /\ UNCHANGED <<v_vars, d_vars, b_vars, p_vars, l_vars, e_vars>>
    \/ RunTestFindRepo /\ UNCHANGED <<v_vars, d_vars, b_vars, p_vars, l_vars, e_vars>>
    \/ RunTestApplyPatch /\ UNCHANGED <<v_vars, d_vars, b_vars, p_vars, l_vars, e_vars>>
    \/ RunTestSelect /\ UNCHANGED <<v_vars, d_vars, b_vars, p_vars, l_vars, e_vars>>
    \/ RunTestExecute /\ UNCHANGED <<v_vars, d_vars, b_vars, p_vars, l_vars, e_vars>>
    \/ RunTestInstall /\ UNCHANGED <<v_vars, d_vars, b_vars, p_vars, l_vars, e_vars>>
    \/ RunTestRerun /\ UNCHANGED <<v_vars, d_vars, b_vars, p_vars, l_vars, e_vars>>
    \/ RunTestFallback /\ UNCHANGED <<v_vars, d_vars, b_vars, p_vars, l_vars, e_vars>>
    \/ RunTestDjangoLabels /\ UNCHANGED <<v_vars, d_vars, b_vars, p_vars, l_vars, e_vars>>
    \/ RunTestParse /\ UNCHANGED <<v_vars, d_vars, b_vars, p_vars, l_vars, e_vars>>
    \/ RunTestContract /\ UNCHANGED <<v_vars, d_vars, b_vars, p_vars, l_vars, e_vars>>
    \/ RunTestUnhandled /\ UNCHANGED <<v_vars, d_vars, b_vars, p_vars, l_vars, e_vars>>
    \/ RunTestFinally /\ UNCHANGED <<v_vars, d_vars, b_vars, p_vars, l_vars, e_vars>>


\* ------------------------------------------------------------ distribute_load
\* REPO_COMPLEXITY.get(repo, 1.0), in tenths
Weight10(repo) ==
    CASE repo = "django/django" -> 30
      [] repo = "sympy/sympy" -> 25
      [] repo = "psf/requests" -> 8
      [] OTHER -> 10

\* by_repo's keys: the repositories in order of first appearance
RECURSIVE RepoOrder(_)
RepoOrder(insts) ==
    IF insts = <<>> THEN <<>>
    ELSE LET front == RepoOrder(SubSeq(insts, 1, Len(insts) - 1))
             r == insts[Len(insts)].repo
         IN  IF r \in Range(front) THEN front ELSE Append(front, r)

\* by_repo[repo]: the repository's instances, in batch order
GroupOf(insts, repo) == SelectSeq(insts, LAMBDA inst : inst.repo = repo)

\* repo_complexities before the sort
RepoComplexities(insts) ==
    LET order == RepoOrder(insts)
    IN  [k \in DOMAIN order |->
            [repo |-> order[k],
             complexity |-> Weight10(order[k]) * Len(GroupOf(insts, order[k])),
             insts |-> GroupOf(insts, order[k])]]

\* the groups left in order of first appearance
KeepOrder(groups) == groups

\* list.sort(key = complexity, reverse = True): stable, equal keys keep their order
RECURSIVE SortDescending(_)
SortDescending(groups) ==
    IF groups = <<>> THEN <<>>
    ELSE LET front == SortDescending(SubSeq(groups, 1, Len(groups) - 1))
             g == groups[Len(groups)]
             before == SelectSeq(front, LAMBDA x : x.complexity >= g.complexity)
             after == SelectSeq(front, LAMBDA x : x.complexity < g.complexity)
         IN  before \o <<g>> \o after

\* the first worker of the pool, whatever the loads are
FirstWorker(urls, loads) == urls[1]

\* min(worker_loads.items(), key = load)[0]: the first worker, in pool order,
\* whose load is least
MinWorker(urls, loads) ==
    LET least == CHOOSE k \in DOMAIN urls :
                    /\ \A j \in DOMAIN urls : loads[urls[k]] <= loads[urls[j]]
                    /\ \A j \in DOMAIN urls : j < k => loads[urls[j]] > loads[urls[k]]
    IN  urls[least]

\* worker_assignments[min_worker] = insts, losing what the worker already had
ReplaceAssignment(assignments, min_worker, insts) ==
    [assignments EXCEPT ![min_worker] = insts]

\* worker_assignments[min_worker].extend(insts)
ExtendAssignment(assignments, min_worker, insts) ==
    [assignments EXCEPT ![min_worker] = @ \o insts]

\* the bin packing loop over the sorted groups
RECURSIVE Pack(_, _, _, _)
Pack(groups, urls, assignments, loads) ==
    IF groups = <<>> THEN assignments
    ELSE LET g == Head(groups)
             min_worker == MinWorker(urls, loads)
         IN  Pack(Tail(groups), urls,
                  ExtendAssignment(assignments, min_worker, g.insts),
                  [loads EXCEPT ![min_worker] = @ + g.complexity])

\* the dict worker_url -> list of instances
distribute_load(insts, urls) ==
    Pack(SortDescending(RepoComplexities(insts)), urls,
         [w \in Range(urls) |-> <<>>], [w \in Range(urls) |-> 0])

DInit ==
    /\ d_pc = "call"
    /\ d_instances \in {InstancesOf(repos) : repos \in RepoSeqs(MaxLen)}
    /\ d_workers \in {SubSeq(WorkerPool, 1, n) : n \in 1..MaxWorkers}
    /\ d_assignments = <<>>

DIdle ==
    /\ d_pc = "idle"
    /\ d_instances = <<>>
    /\ d_workers = <<>>
    /\ d_assignments = <<>>

DistributeLoad ==
    /\ d_pc = "call"
    /\ d_assignments' = distribute_load(d_instances, d_workers)
    /\ d_pc' = "returned"
    /\ UNCHANGED <<d_instances, d_workers>>

DNext == DistributeLoad /\ UNCHANGED <<v_vars, t_vars, b_vars, p_vars, l_vars, e_vars>>

\* --------------------------------------------------------------- validate_all
\* what a worker answers to the requests of a batch's attempts: to the
\* test-only request a 200 with a failing run, a 422, or no answer at all; to
\* the with-fix request a 200 with a passing or a failing run, or no answer
FailingBody == [passed |-> 0, failed |-> MaxCount, errors |-> 0, collected |-> MaxCount]

PassingBody == [passed |-> MaxCount, failed |-> 0, errors |-> 0, collected |-> MaxCount]

BatchResponses1 ==
    {[kind |-> "response", status |-> 200, body |-> FailingBody],
     [kind |-> "response", status |-> 422, body |-> <<>>],
     [kind |-> "raise", status |-> 0, body |-> <<>>]}

BatchResponses2 ==
    {[kind |-> "response", status |-> 200, body |-> PassingBody],
     [kind |-> "response", status |-> 200, body |-> FailingBody],
     [kind |-> "raise", status |-> 0, body |-> <<>>]}

\* what a worker answers to the test-only request: a worker that is down
\* answers nothing, and requests.post raises
AnswersOf(worker_url, up) ==
    IF worker_url \in up THEN BatchResponses1
    ELSE {[kind |-> "raise", status |-> 0, body |-> <<>>]}

\* what is answered to the with-fix request, which is sent only after the
\* test-only request came back with status 200
SecondAnswers(r1) ==
    IF Raised(r1) \/ r1.status # 200 THEN {NoResponse} ELSE BatchResponses2

\* the (future, instance, worker_url) triples in submission order: for each
\* worker of the assignment dict, for each of its instances
RECURSIVE Submissions(_, _)
Submissions(urls, assignments) ==
    IF urls = <<>> THEN <<>>
    ELSE LET mine == assignments[Head(urls)]
         IN  [k \in DOMAIN mine |->
                [instance |-> mine[k], worker_url |-> Head(urls), retry_count |-> 0,
                 state |-> "queued", result |-> NoResult]]
             \o Submissions(Tail(urls), assignments)

NumRunning(fs) == Cardinality({i \in DOMAIN fs : fs[i].state = "running"})

AllFinished(fs) == \A i \in DOMAIN fs : fs[i].state \notin {"queued", "running"}

\* available_workers of _retry_failed
AvailableWorkers(urls, original_result) ==
    LET original_worker == Get(original_result, "worker", None)
        others == SelectSeq(urls, LAMBDA w : w # original_worker)
    IN  IF others = <<>> THEN urls ELSE others

\* the retry futures submitted with the retry budget never consulted
RetrySubmissionsIgnoringBudget(failed, retries_allowed, picks) ==
    [k \in DOMAIN failed |->
        [instance |-> failed[k].instance, worker_url |-> picks[k],
         retry_count |-> Get(failed[k].result, "retry_count", 0) + 1,
         state |-> "queued", result |-> NoResult]]

\* the retry futures with every failed instance submitted twice over
RetrySubmissionsTwice(failed, retries_allowed, picks) ==
    RetrySubmissionsIgnoringBudget(failed, retries_allowed, picks)
    \o RetrySubmissionsIgnoringBudget(failed, retries_allowed, picks)

\* the retry futures validate_all submits through _retry_failed: none unless
\* failed_instances and max_retries > 0; then one per failed instance whose
\* retry_count <= max_retries, on the worker random.choice picked
RetrySubmissions(failed, retries_allowed, picks) ==
    IF failed = <<>> \/ ~(retries_allowed > 0) THEN <<>>
    ELSE SelectSeq(
            [k \in DOMAIN failed |->
                [instance |-> failed[k].instance, worker_url |-> picks[k],
                 retry_count |-> Get(failed[k].result, "retry_count", 0) + 1,
                 state |-> "queued", result |-> NoResult]],
            LAMBDA f : f.retry_count <= retries_allowed)

\* if not result.get('valid', False) and 'error' in result
TrackedForRetry(result) == ~Get(result, "valid", FALSE) /\ "error" \in DOMAIN result

\* a summary whose per-repository and per-worker counts leave the invalid
\* results out
GenerateSummaryOfValid(results) ==
    LET valid == SelectSeq(results, LAMBDA x : Get(x, "valid", FALSE))
    IN  [total_instances |-> Len(results),
         valid_instances |-> Len(valid),
         invalid_instances |-> Len(results) - Len(valid),
         by_repository |->
            [r \in {valid[i].repo : i \in DOMAIN valid} |->
                [total |-> Len(SelectSeq(valid, LAMBDA x : x.repo = r)),
                 valid |-> Len(SelectSeq(valid, LAMBDA x : x.repo = r)),
                 errors |-> <<>>]],
         by_worker |->
            [w \in {valid[i].worker : i \in DOMAIN valid} |->
                Len(SelectSeq(valid, LAMBDA x : x.worker = w))],
         results |-> results]

\* a summary whose valid count starts again from 0 at every invalid result
GenerateSummaryCountReset(results) ==
    LET invalid == {i \in DOMAIN results : ~Get(results[i], "valid", FALSE)}
        since == {i \in DOMAIN results : \A j \in invalid : j < i}
        repos == {results[i].repo : i \in DOMAIN results}
        of_repo(r) == SelectSeq(results, LAMBDA x : x.repo = r)
    IN  [total_instances |-> Len(results),
         valid_instances |-> Cardinality(since),
         invalid_instances |-> Len(results) - Cardinality(since),
         by_repository |->
            [r \in repos |->
                [total |-> Len(of_repo(r)),
                 valid |-> Len(SelectSeq(of_repo(r), LAMBDA x : Get(x, "valid", FALSE))),
                 errors |-> <<>>]],
         by_worker |->
            [w \in {Get(results[i], "worker", "unknown") : i \in DOMAIN results} |->
                Cardinality({i \in DOMAIN results : Get(results[i], "worker", "unknown") = w})],
         results |-> results]

\* _generate_summary
GenerateSummary(results) ==
    LET valid_count == Cardinality({i \in DOMAIN results : Get(results[i], "valid", FALSE)})
        repos == {results[i].repo : i \in DOMAIN results}
        workers == {Get(results[i], "worker", "unknown") : i \in DOMAIN results}
    IN  [total_instances |-> Len(results),
         valid_instances |-> valid_count,
         invalid_instances |-> Len(results) - valid_count,
         by_repository |->
            [r \in repos |->
                LET of_repo == SelectSeq(results, LAMBDA x : x.repo = r)
                    listed == SelectSeq(of_repo,
                                LAMBDA x : ~Get(x, "valid", FALSE) /\ "error" \in DOMAIN x)
                IN  [total |-> Len(of_repo),
                     valid |-> Len(SelectSeq(of_repo, LAMBDA x : Get(x, "valid", FALSE))),
                     errors |-> [k \in DOMAIN listed |-> listed[k].instance_id]]],
         by_worker |->
            [w \in workers |->
                Cardinality({i \in DOMAIN results : Get(results[i], "worker", "unknown") = w})],
         results |-> results]

NoSummary == <<>>

\* the repositories of the batch's instances, in batch order: two instances
\* of one repository come first, so that one worker is handed several
BatchRepos == <<"django/django", "django/django", "psf/requests", "sympy/sympy">>

BInit ==
    /\ worker_urls \in {SubSeq(WorkerPool, 1, n) : n \in 1..MaxWorkers}
    /\ max_workers_per_instance = 1
    /\ instances \in {InstancesOf(SubSeq(BatchRepos, 1, n)) : n \in 0..MaxBatch}
    /\ max_retries \in {0, 1, MaxRetriesArg}
    /\ answering \in {Range(worker_urls), Range(worker_urls) \ {worker_urls[1]}}
    /\ b_pc = "start"
    /\ futures = <<>>
    /\ next_future = 1
    /\ all_results = <<>>
    /\ failed_instances = <<>>
    /\ processed_count = 0
    /\ retry_futures = <<>>
    /\ retry_results = <<>>
    /\ summary = NoSummary

BIdle ==
    /\ worker_urls = <<>>
    /\ max_workers_per_instance = 0
    /\ instances = <<>>
    /\ max_retries = 0
    /\ answering = {}
    /\ b_pc = "idle"
    /\ futures = <<>>
    /\ next_future = 0
    /\ all_results = <<>>
    /\ failed_instances = <<>>
    /\ processed_count = 0
    /\ retry_futures = <<>>
    /\ retry_results = <<>>
    /\ summary = NoSummary

b_config == <<worker_urls, max_workers_per_instance, instances, max_retries, answering>>

\* distribute the load and submit every (instance, worker) pair to the pool
ValidateAllStart ==
    /\ b_pc = "start"
    /\ futures' = Submissions(worker_urls, distribute_load(instances, worker_urls))
    /\ next_future' = 1
    /\ all_results' = <<>>
    /\ failed_instances' = <<>>
    /\ processed_count' = 0
    /\ b_pc' = "first_round"
    /\ UNCHANGED <<b_config, retry_futures, retry_results, summary>>

\* a pool thread takes the oldest queued call; the pool has
\* len(worker_urls) * max_workers_per_instance threads
PoolStart ==
    /\ b_pc = "first_round"
    /\ NumRunning(futures) < Len(worker_urls) * max_workers_per_instance
    /\ \E i \in DOMAIN futures :
        /\ futures[i].state = "queued"
        /\ \A j \in 1..(i - 1) : futures[j].state # "queued"
        /\ futures' = [futures EXCEPT ![i].state = "running"]
    /\ UNCHANGED <<b_config, b_pc, next_future, all_results, failed_instances,
                   processed_count, retry_futures, retry_results, summary>>

\* a pool thread that, on returning, appends its dict to the shared list and
\* counts itself
PoolFinishAppending ==
    /\ b_pc = "first_round"
    /\ \E i \in DOMAIN futures :
        /\ futures[i].state = "running"
        /\ \E r1 \in AnswersOf(futures[i].worker_url, answering) : \E r2 \in SecondAnswers(r1) :
            LET result == ValidateInstanceOnWorker(futures[i].instance,
                            futures[i].worker_url, futures[i].retry_count, r1, r2)
            IN  /\ futures' = [futures EXCEPT ![i].state = "returned", ![i].result = result]
                /\ all_results' = Append(all_results, result)
    /\ processed_count' = processed_count + 1
    /\ UNCHANGED <<b_config, b_pc, next_future, failed_instances, retry_futures,
                   retry_results, summary>>

\* a running validate_instance_on_worker call returns its dict; the dict of a
\* call the collecting loop has already given up on is read by nobody and is
\* not kept
PoolFinish ==
    /\ b_pc = "first_round"
    /\ \E i \in DOMAIN futures :
        /\ futures[i].state = "running"
        /\ \E r1 \in AnswersOf(futures[i].worker_url, answering) : \E r2 \in SecondAnswers(r1) :
            futures' = [futures EXCEPT
                ![i].state = "returned",
                ![i].result =
                    IF i < next_future THEN NoResult
                    ELSE ValidateInstanceOnWorker(futures[i].instance,
                            futures[i].worker_url, futures[i].retry_count, r1, r2)]
    /\ UNCHANGED <<b_config, b_pc, next_future, all_results, failed_instances,
                   processed_count, retry_futures, retry_results, summary>>

\* the collecting loop's try branch: future.result(timeout=420) returns
CollectResult ==
    /\ b_pc = "first_round"
    /\ next_future \in DOMAIN futures
    /\ futures[next_future].state = "returned"
    /\ LET result == futures[next_future].result
       IN  /\ all_results' = Append(all_results, result)
           /\ failed_instances' =
                IF TrackedForRetry(result)
                THEN Append(failed_instances,
                            [instance |-> futures[next_future].instance, result |-> result])
                ELSE failed_instances
    /\ processed_count' = processed_count + 1
    /\ next_future' = next_future + 1
    /\ UNCHANGED <<b_config, b_pc, futures, retry_futures, retry_results, summary>>

\* the collecting loop's except branch: future.result(timeout=420) raises
\* TimeoutError because the call has not finished; the call itself goes on
\* (the placeholder dict has the single key error, holding str(e))
CollectTimeout ==
    /\ b_pc = "first_round"
    /\ next_future \in DOMAIN futures
    /\ futures[next_future].state \in {"queued", "running"}
    /\ failed_instances' =
            Append(failed_instances,
                   [instance |-> futures[next_future].instance,
                    result |-> [error |-> "TimeoutError"]])
    /\ processed_count' = processed_count + 1
    /\ next_future' = next_future + 1
    /\ UNCHANGED <<b_config, b_pc, futures, all_results, retry_futures, retry_results, summary>>

\* the retries submitted as soon as the collecting loop has ended, without
\* the pool's shutdown being waited for
ValidateAllRetryWithoutWaiting ==
    /\ b_pc = "first_round"
    /\ next_future = Len(futures) + 1
    /\ \E picks \in [DOMAIN failed_instances -> Range(worker_urls)] :
        /\ \A k \in DOMAIN failed_instances :
              picks[k] \in Range(AvailableWorkers(worker_urls, failed_instances[k].result))
        /\ retry_futures' = RetrySubmissions(failed_instances, max_retries, picks)
    /\ retry_results' = <<>>
    /\ b_pc' = "retry_round"
    /\ UNCHANGED <<b_config, futures, next_future, all_results, failed_instances,
                   processed_count, summary>>

\* the with block ends (the pool is shut down once every call has finished);
\* then "Retry failed instances": the retries are submitted to a new pool
ValidateAllRetry ==
    /\ b_pc = "first_round"
    /\ next_future = Len(futures) + 1
    /\ AllFinished(futures)
    /\ \E picks \in [DOMAIN failed_instances -> Range(worker_urls)] :
        /\ \A k \in DOMAIN failed_instances :
              picks[k] \in Range(AvailableWorkers(worker_urls, failed_instances[k].result))
        /\ retry_futures' = RetrySubmissions(failed_instances, max_retries, picks)
    /\ retry_results' = <<>>
    /\ b_pc' = "retry_round"
    /\ UNCHANGED <<b_config, futures, next_future, all_results, failed_instances,
                   processed_count, summary>>

\* a thread of the retry pool (len(worker_urls) threads) takes the oldest
\* queued retry
RetryPoolStart ==
    /\ b_pc = "retry_round"
    /\ NumRunning(retry_futures) < Len(worker_urls)
    /\ \E i \in DOMAIN retry_futures :
        /\ retry_futures[i].state = "queued"
        /\ \A j \in 1..(i - 1) : retry_futures[j].state # "queued"
        /\ retry_futures' = [retry_futures EXCEPT ![i].state = "running"]
    /\ UNCHANGED <<b_config, b_pc, futures, next_future, all_results, failed_instances,
                   processed_count, retry_results, summary>>

\* a running retry returns its dict, and as_completed hands the finished
\* future to the loop, which appends the dict: retry_results is in completion
\* order
RetryFinish ==
    /\ b_pc = "retry_round"
    /\ \E i \in DOMAIN retry_futures :
        /\ retry_futures[i].state = "running"
        /\ \E r1 \in AnswersOf(retry_futures[i].worker_url, answering) : \E r2 \in SecondAnswers(r1) :
            LET result == ValidateInstanceOnWorker(retry_futures[i].instance,
                            retry_futures[i].worker_url, retry_futures[i].retry_count, r1, r2)
            IN  /\ retry_futures' = [retry_futures EXCEPT
                        ![i].state = "collected", ![i].result = result]
                /\ retry_results' = Append(retry_results, result)
    /\ UNCHANGED <<b_config, b_pc, futures, next_future, all_results, failed_instances,
                   processed_count, summary>>

\* _retry_failed returns; all_results.extend(retry_results); the summary
ValidateAllSummarize ==
    /\ b_pc = "retry_round"
    /\ \A i \in DOMAIN retry_futures : retry_futures[i].state = "collected"
    /\ all_results' = all_results \o retry_results
    /\ summary' = GenerateSummary(all_results \o retry_results)
    /\ b_pc' = "done"
    /\ UNCHANGED <<b_config, futures, next_future, failed_instances, processed_count,
                   retry_futures, retry_results>>

BNext ==
    \/ ValidateAllStart /\ UNCHANGED <<v_vars, t_vars, d_vars, p_vars, l_vars, e_vars>>
    \/ PoolStart /\ UNCHANGED <<v_vars, t_vars, d_vars, p_vars, l_vars, e_vars>>
    \/ PoolFinish /\ UNCHANGED <<v_vars, t_vars, d_vars, p_vars, l_vars, e_vars>>
    \/ CollectResult /\ UNCHANGED <<v_vars, t_vars, d_vars, p_vars, l_vars, e_vars>>
    \/ CollectTimeout /\ UNCHANGED <<v_vars, t_vars, d_vars, p_vars, l_vars, e_vars>>
    \/ ValidateAllRetry /\ UNCHANGED <<v_vars, t_vars, d_vars, p_vars, l_vars, e_vars>>
    \/ RetryPoolStart /\ UNCHANGED <<v_vars, t_vars, d_vars, p_vars, l_vars, e_vars>>
    \/ RetryFinish /\ UNCHANGED <<v_vars, t_vars, d_vars, p_vars, l_vars, e_vars>>
    \/ ValidateAllSummarize /\ UNCHANGED <<v_vars, t_vars, d_vars, p_vars, l_vars, e_vars>>

\* -------------------------------------------------------------- _parse_pytest
\* int(): the value of a numeral
NumeralValue ==
    ("0" :> 0) @@ ("1" :> 1) @@ ("2" :> 2) @@ ("3" :> 3) @@ ("4" :> 4) @@ ("5" :> 5)
    @@ ("6" :> 6) @@ ("7" :> 7) @@ ("8" :> 8) @@ ("9" :> 9) @@ ("88" :> 88)
    @@ ("96" :> 96)

\* \d+ as a whole word
IsNumeral(word) == word \in DOMAIN NumeralValue

Numeral(n) == CHOOSE word \in DOMAIN NumeralValue : NumeralValue[word] = n

\* =+ as a whole word
IsBorder(word) == word = "===="

\* a word that starts with [\d.]+s
IsTimed(word) == word = "0.15s"

\* the words that start with the name of a count
WordsStarting(kind) ==
    CASE kind = "passed" -> {"passed", "passed,"}
      [] kind = "failed" -> {"failed", "failed,", "failed."}
      [] kind = "error" -> {"error", "error,", "errors", "errors,", "error)"}
      [] kind = "skipped" -> {"skipped", "skipped,"}
      [] OTHER -> {}

\* the words whose lower case contains "failed", and "error"
WordsWithFailed == {"failed", "failed,", "failed.", "FAILED"}

WordsWithError ==
    {"error", "error,", "errors", "errors,", "error)", "ERROR", "ERROR:", "INTERNALERROR>"}

\* the words that end with "."
WordsEndingInDot == {".....", "failed."}

AnyWord(line, words) == \E k \in DOMAIN line : line[k] \in words

\* first word in firsts, the next word in seconds: a substring or a regular
\* expression that spans one stretch of whitespace
AnyPair(line, firsts, seconds) ==
    \E k \in DOMAIN line :
        k + 1 \in DOMAIN line /\ line[k] \in firsts /\ line[k + 1] \in seconds

\* a first loop that knows the collection-failure marker only
ShortCircuitCollectingOnly(line) == AnyPair(line, {"ERROR"}, {"collecting"})

\* the collection-failure and execution-error markers of the first loop
ShortCircuit(line) ==
    \/ AnyPair(line, {"ERROR"}, {"collecting"})
    \/ AnyPair(line, {"collection", "Collection"}, WordsWithFailed)
    \/ (line # <<>> /\ line[1] = "ERROR:")
    \/ AnyWord(line, {"INTERNALERROR>"})

ZeroStats == [collected |-> 0, passed |-> 0, failed |-> 0, errors |-> 0, skipped |-> 0]

SumOfValues(stats) ==
    stats.collected + stats.passed + stats.failed + stats.errors + stats.skipped

AnyCount(stats) ==
    stats.passed > 0 \/ stats.failed > 0 \/ stats.errors > 0 \/ stats.skipped > 0

\* re.search(r'=+\s*([\d.]+s.*?)=+$', line): the place of the first border
\* that is followed by a timed word, in a line that ends with a border; 0
\* when there is none
TimedSummaryAt(line) ==
    LET places == {k \in DOMAIN line :
                     /\ IsBorder(line[k])
                     /\ k + 1 < Len(line)
                     /\ IsTimed(line[k + 1])
                     /\ IsBorder(line[Len(line)])}
    IN  IF places = {} THEN 0 ELSE CHOOSE k \in places : \A j \in places : k <= j

\* re.search(r'(\d+)\s+<kind>', summary_text): the number before the first
\* word that starts with the kind, -1 when there is none
SummaryCount(text, kind) ==
    LET places == {k \in DOMAIN text :
                     /\ k + 1 \in DOMAIN text
                     /\ IsNumeral(text[k])
                     /\ text[k + 1] \in WordsStarting(kind)}
    IN  IF places = {} THEN -1
        ELSE NumeralValue[text[CHOOSE k \in places : \A j \in places : k <= j]]

\* the four counts of the timed summary written over stats
WithSummaryCounts(stats, text) ==
    LET put(st, key, kind) ==
            IF SummaryCount(text, kind) >= 0
            THEN [st EXCEPT ![key] = SummaryCount(text, kind)] ELSE st
    IN  put(put(put(put(stats, "passed", "passed"), "failed", "failed"),
                "errors", "error"), "skipped", "skipped")

\* re.match(r'^=+\s*\d+\s+(passed|failed|error|skipped)', line)
CountedSummary(line) ==
    /\ Len(line) >= 3
    /\ IsBorder(line[1])
    /\ IsNumeral(line[2])
    /\ line[3] \in WordsStarting("passed") \cup WordsStarting("failed")
                    \cup WordsStarting("error") \cup WordsStarting("skipped")

\* part in ['passed', 'failed', 'error', 'errors', 'skipped'] and the key it
\* sets: the part is compared whole, with any comma that follows the word
PartKey(part) ==
    CASE part = "passed" -> "passed"
      [] part = "failed" -> "failed"
      [] part \in {"error", "errors"} -> "errors"
      [] part = "skipped" -> "skipped"
      [] OTHER -> "none"

\* for i, part in enumerate(line.split()): count = int(parts[i-1]), a
\* ValueError passed over; parts[-1] is the last part
RECURSIVE WithSplitParts(_, _, _)
WithSplitParts(stats, parts, k) ==
    IF k > Len(parts) THEN stats
    ELSE LET before == IF k = 1 THEN parts[Len(parts)] ELSE parts[k - 1]
             key == PartKey(parts[k])
         IN  WithSplitParts(
                IF key # "none" /\ IsNumeral(before)
                THEN [stats EXCEPT ![key] = NumeralValue[before]] ELSE stats,
                parts, k + 1)

\* the second loop over the lines; ret says that it returned from inside
RECURSIVE ScanSummaries(_, _)
ScanSummaries(lines, stats) ==
    IF lines = <<>> THEN [ret |-> FALSE, stats |-> stats]
    ELSE LET line == Head(lines)
             at == TimedSummaryAt(line)
             counted == IF at > 0
                        THEN WithSummaryCounts(stats, SubSeq(line, at + 1, Len(line) - 1))
                        ELSE stats
         IN  IF at > 0 /\ AnyCount(counted)
             THEN [ret |-> TRUE,
                   stats |-> [counted EXCEPT !.collected = SumOfValues(counted)]]
             ELSE IF \E k \in DOMAIN line :
                        /\ k + 4 \in DOMAIN line
                        /\ IsBorder(line[k])
                        /\ SubSeq(line, k + 1, k + 4) = <<"no", "tests", "ran", "in">>
             THEN [ret |-> TRUE, stats |-> [counted EXCEPT !.collected = 0]]
             ELSE ScanSummaries(Tail(lines),
                                IF CountedSummary(line)
                                THEN WithSplitParts(counted, line, 1) ELSE counted)

\* the third loop: the first line with "collected" and "item" in it that
\* matches collected\s+(\d+)
RECURSIVE WithCollected(_, _)
WithCollected(lines, stats) ==
    IF lines = <<>> THEN stats
    ELSE LET line == Head(lines)
             places == {k \in DOMAIN line :
                          /\ k + 1 \in DOMAIN line
                          /\ line[k] = "collected"
                          /\ IsNumeral(line[k + 1])}
         IN  IF AnyWord(line, {"collected"}) /\ AnyWord(line, {"item", "items"})
                /\ places # {}
             THEN [stats EXCEPT !.collected =
                      NumeralValue[line[(CHOOSE k \in places : \A j \in places : k <= j) + 1]]]
             ELSE WithCollected(Tail(lines), stats)

RECURSIVE CountWord(_, _)
CountWord(lines, word) ==
    IF lines = <<>> THEN 0
    ELSE Cardinality({k \in DOMAIN Head(lines) : Head(lines)[k] = word})
         + CountWord(Tail(lines), word)

\* "If nothing found": progress dots or a PASSED/FAILED/SKIPPED word with
\* every count still zero
WithIndicators(lines, stats) ==
    IF /\ stats = ZeroStats
       /\ \E i \in DOMAIN lines : lines[i] # <<>>
       /\ \E i \in DOMAIN lines :
            \/ AnyPair(lines[i], WordsEndingInDot, {"[100%]"})
            \/ AnyWord(lines[i], {"PASSED", "FAILED", "SKIPPED"})
    THEN IF \A i \in DOMAIN lines :
                ~AnyWord(lines[i], WordsWithFailed) /\ ~AnyWord(lines[i], WordsWithError)
         THEN LET test_count == CountWord(lines, "PASSED")
              IN  IF test_count > 0
                  THEN [stats EXCEPT !.passed = test_count, !.collected = test_count]
                  ELSE stats
         ELSE [stats EXCEPT !.errors = 1]
    ELSE stats

\* "Final validation"
WithFinalValidation(stats) ==
    IF stats.collected = 0 /\ AnyCount(stats)
    THEN [stats EXCEPT !.collected = SumOfValues(stats)] ELSE stats

\* _parse_pytest(output)
parse_pytest(lines) ==
    IF \E i \in DOMAIN lines : ShortCircuit(lines[i])
    THEN [ZeroStats EXCEPT !.errors = 1]
    ELSE LET scanned == ScanSummaries(lines, ZeroStats)
         IN  IF scanned.ret THEN scanned.stats
             ELSE WithFinalValidation(
                    WithIndicators(lines, WithCollected(lines, scanned.stats)))

\* the output texts: a "collected" line or none, a test line or none, a
\* summary line or none, a line after the summary or none
CollectedLines ==
    {<<"collected", Numeral(n), IF n = 1 THEN "item" ELSE "items">> : n \in 1..MaxTests}

TestLines ==
    {<<"test_point.py::test_issue_11617", "PASSED", "[100%]">>,
     <<"test_point.py::test_issue_11617", "FAILED", "[100%]">>,
     <<"test_point.py", ".....", "[100%]">>}

SummaryKinds == {"passed", "failed", "error", "errors", "skipped", "warnings"}

WithComma(kind) ==
    CASE kind = "passed" -> "passed,"
      [] kind = "failed" -> "failed,"
      [] kind = "error" -> "error,"
      [] kind = "errors" -> "errors,"
      [] kind = "skipped" -> "skipped,"
      [] OTHER -> "warnings,"

\* "==== 1 failed, 96 warnings in 0.15s ===="
FailedWithWarningsLine == <<"====", "1", "failed,", "96", "warnings", "in", "0.15s", "====">>

SummaryLines ==
    {<<"====", Numeral(n), kind, "in", "0.15s", "====">> :
        n \in 1..MaxTests, kind \in SummaryKinds}
    \cup {<<"====", Numeral(n), WithComma(q[1]), Numeral(m), q[2], "in", "0.15s", "====">> :
            n \in 1..MaxTests, m \in 1..MaxTests,
            q \in {kk \in SummaryKinds \X SummaryKinds : kk[1] # kk[2]}}
    \cup {<<"====", "0.15s", Numeral(n), kind, "====">> :
            n \in 1..MaxTests, kind \in SummaryKinds}
    \cup {FailedWithWarningsLine, <<"====", "no", "tests", "ran", "in", "0.15s", "====">>}

\* "ERROR conda.cli.main_run:execute(124): conda run pytest failed. (See
\* above for error)", the quotes around the command left out
CondaErrorLine ==
    <<"ERROR", "conda.cli.main_run:execute(124):", "conda", "run", "pytest", "failed.",
      "(See", "above", "for", "error)">>

AfterLines ==
    {CondaErrorLine,
     <<"ERROR:", "file", "not", "found">>,
     <<"ERROR", "collecting", "test_point.py">>,
     <<"INTERNALERROR>", "Traceback">>}

\* lines that come before everything else
BeforeLines ==
    {<<"ERROR:", "file", "not", "found">>,
     <<"Collection", "failed">>,
     <<"Traceback", "(most", "recent", "call", "last):">>}

OneOrNone(lines) == {<<>>} \cup {<<line>> : line \in lines}

Outputs ==
    {b \o c \o t \o s \o a :
        b \in OneOrNone(BeforeLines), c \in OneOrNone(CollectedLines),
        t \in OneOrNone(TestLines), s \in OneOrNone(SummaryLines),
        a \in OneOrNone(AfterLines)}

\* ------------------------------------------------------- _parse_django_output
\* The words of the bracket that follows FAILED or OK: "(failures=2,",
\* "errors=1)", "(skipped=1)", ... A word is written from an optional "(", a
\* key, "=", a numeral and what closes it; the table reads a word back.
DetailKeys == {"failures", "errors", "skipped"}

DetailWord(open, key, numeral, close) == open \o key \o "=" \o numeral \o close

DetailTable ==
    {[word |-> DetailWord(o, k, n, c), open |-> o, key |-> k, numeral |-> n, close |-> c] :
        o \in {"", "("}, k \in DetailKeys, n \in DOMAIN NumeralValue, c \in {"", ",", ")"}}

IsDetail(word) == \E r \in DetailTable : r.word = word

DetailOf(word) == CHOOSE r \in DetailTable : r.word = word

\* a word that starts with "("
OpensBracket(word) ==
    \/ word \in {"(most", "(app.tests.T)"}
    \/ (IsDetail(word) /\ DetailOf(word).open = "(")

\* a word with a ")" in it, some text before it
ClosesBracket(word) ==
    \/ word \in {"last):", "(app.tests.T)"}
    \/ (IsDetail(word) /\ DetailOf(word).close = ")")

\* \(\S+\) as a whole word
IsBracketed(word) ==
    \/ word = "(app.tests.T)"
    \/ (IsDetail(word) /\ DetailOf(word).open = "(" /\ DetailOf(word).close = ")")

\* a word that ends with a character of \w
EndsWithWordChar(word) ==
    \/ word \in {"test_a", "test_b", "Ran", "test", "tests", "in", "0.123s", "OK", "FAILED",
                 "ok", "FAIL", "ERROR", "skipped", "Traceback", "recent", "call"}
    \/ IsNumeral(word)
    \/ (IsDetail(word) /\ DetailOf(word).close = "")

\* words that start with the result word of a verbose test line
WordsStartingResult(result) ==
    CASE result = "ok" -> {"ok"}
      [] result = "FAIL" -> {"FAIL", "FAILED"}
      [] result = "ERROR" -> {"ERROR"}
      [] result = "skipped" -> {"skipped"}

\* the text as one run of words: \s matches a line end as it matches a blank
RECURSIVE Flatten(_)
Flatten(lines) == IF lines = <<>> THEN <<>> ELSE Head(lines) \o Flatten(Tail(lines))

\* re.search(r'Ran (\d+) tests? in', output): "Ran N test(s) in" within a line
RanAt(line, k) ==
    /\ k + 3 <= Len(line)
    /\ line[k] = "Ran"
    /\ IsNumeral(line[k + 1])
    /\ line[k + 2] \in {"test", "tests"}
    /\ line[k + 3] = "in"

HasRan(line) == \E k \in DOMAIN line : RanAt(line, k)

RanMatched(lines) == \E i \in DOMAIN lines : HasRan(lines[i])

\* int(ran_match.group(1)) of the first match
RanCount(lines) ==
    LET i == CHOOSE a \in DOMAIN lines :
                /\ HasRan(lines[a])
                /\ \A b \in 1..(a - 1) : ~HasRan(lines[b])
        line == lines[i]
        k == CHOOSE a \in DOMAIN line :
                /\ RanAt(line, a)
                /\ \A b \in 1..(a - 1) : ~RanAt(line, b)
    IN  NumeralValue[line[k + 1]]

\* re.search(r'\nOK\s*$', output, re.MULTILINE): a line after the first that
\* is OK and nothing else
OkMatched(lines) == \E i \in 2..Len(lines) : lines[i] = <<"OK">>

\* re.search(r'\nFAILED\s*\(', output): a line after the first that starts
\* with FAILED and an opening bracket
FailedMatched(lines) ==
    \E i \in 2..Len(lines) :
        /\ Len(lines[i]) >= 2
        /\ lines[i][1] = "FAILED"
        /\ OpensBracket(lines[i][2])

\* re.search(r'FAILED\s*\(([^)]+)\)', output): the places of the text where
\* FAILED and an opening bracket stand and a closing bracket follows
FailStarts(flat) ==
    {j \in DOMAIN flat :
        /\ flat[j] = "FAILED"
        /\ j + 1 <= Len(flat)
        /\ OpensBracket(flat[j + 1])
        /\ \E m \in (j + 1)..Len(flat) : ClosesBracket(flat[m])}

\* fail_match.group(1): the words from the bracket's opening to its closing
FailDetails(flat) ==
    LET j == CHOOSE a \in FailStarts(flat) : \A b \in FailStarts(flat) : a <= b
        m == CHOOSE a \in (j + 1)..Len(flat) :
                /\ ClosesBracket(flat[a])
                /\ \A b \in (j + 1)..(a - 1) : ~ClosesBracket(flat[b])
    IN  SubSeq(flat, j + 1, m)

\* the details left unread
WithDetailUnread(stats, details, keys, field) == stats

\* re.search(r'failures?=(\d+)', details) and its like: is a count of one of
\* the keys among the details, and the first of them
DetailMatched(details, keys) ==
    \E k \in DOMAIN details : IsDetail(details[k]) /\ DetailOf(details[k]).key \in keys

DetailCount(details, keys) ==
    LET k == CHOOSE a \in DOMAIN details :
                /\ IsDetail(details[a]) /\ DetailOf(details[a]).key \in keys
                /\ \A b \in 1..(a - 1) :
                    ~(IsDetail(details[b]) /\ DetailOf(details[b]).key \in keys)
    IN  NumeralValue[DetailOf(details[k]).numeral]

WithDetail(stats, details, keys, field) ==
    IF DetailMatched(details, keys)
    THEN [stats EXCEPT ![field] = DetailCount(details, keys)]
    ELSE stats

\* passed as the total less the failed, the errors and the skipped, taken as
\* it comes
PassedUnfloored(stats) ==
    [stats EXCEPT !.passed = stats.collected - stats.failed - stats.errors - stats.skipped]

\* stats["passed"] = max(0, collected - failed - errors - skipped)
PassedFloored(stats) ==
    LET rest == stats.collected - stats.failed - stats.errors - stats.skipped
    IN  [stats EXCEPT !.passed = IF rest > 0 THEN rest ELSE 0]

\* the branch taken when "Ran N tests in" was found
WithRan(lines) ==
    LET counted == [ZeroStats EXCEPT !.collected = RanCount(lines)]
        flat == Flatten(lines)
    IN  IF OkMatched(lines)
        THEN [counted EXCEPT !.passed = counted.collected]
        ELSE IF FailedMatched(lines)
        THEN IF FailStarts(flat) # {}
             THEN LET details == FailDetails(flat)
                      f == WithDetail(counted, details, {"failure", "failures"}, "failed")
                      e == WithDetail(f, details, {"error", "errors"}, "errors")
                      k == WithDetail(e, details, {"skippe", "skipped"}, "skipped")
                  IN  PassedFloored(k)
             ELSE PassedFloored([counted EXCEPT !.failed = 1])
        ELSE counted

\* len(re.findall(r'(\w+)\s+\(\S+\)\s+\.\.\.\s+ok', output)) and its like:
\* the matches from left to right, none over another
VerboseAt(flat, j, result) ==
    /\ j + 3 <= Len(flat)
    /\ EndsWithWordChar(flat[j])
    /\ IsBracketed(flat[j + 1])
    /\ flat[j + 2] = "..."
    /\ flat[j + 3] \in WordsStartingResult(result)

RECURSIVE VerboseCountFrom(_, _, _)
VerboseCountFrom(flat, j, result) ==
    IF j + 3 > Len(flat) THEN 0
    ELSE IF VerboseAt(flat, j, result) THEN 1 + VerboseCountFrom(flat, j + 4, result)
    ELSE VerboseCountFrom(flat, j + 1, result)

\* the fallback taken when "Ran N tests in" was not found
WithVerboseCounts(lines) ==
    LET flat == Flatten(lines)
        passed == VerboseCountFrom(flat, 1, "ok")
        failed == VerboseCountFrom(flat, 1, "FAIL")
        errors == VerboseCountFrom(flat, 1, "ERROR")
        skipped == VerboseCountFrom(flat, 1, "skipped")
    IN  IF passed + failed + errors + skipped > 0
        THEN [collected |-> passed + failed + errors + skipped, passed |-> passed,
              failed |-> failed, errors |-> errors, skipped |-> skipped]
        ELSE ZeroStats

parse_django_output(lines) ==
    IF RanMatched(lines) THEN WithRan(lines) ELSE WithVerboseCounts(lines)

\* The outputs it is called with: up to MaxVerbose lines of the verbose
\* listing or of a traceback, the "Ran N tests in" line, and the line of the
\* result.
VerboseLines ==
    {<<"test_a", "(app.tests.T)", "...", "ok">>,
     <<"test_b", "(app.tests.T)", "...", "FAIL">>,
     <<"test_a", "(app.tests.T)", "...", "ERROR">>,
     <<"test_b", "(app.tests.T)", "...", "skipped">>,
     <<"Traceback", "(most", "recent", "call", "last):">>}

RanCounts == (0..MaxTests) \cup {88}

RanLine(n) == <<"Ran", Numeral(n), IF n = 1 THEN "test" ELSE "tests", "in", "0.123s">>

\* "FAILED (failures=X, errors=Y, skipped=Z)", a count of 0 left out
FailedLine(x, y, z) ==
    LET all == <<<<"failures", x>>, <<"errors", y>>, <<"skipped", z>>>>
        IsListed(part) == part[2] > 0
        parts == SelectSeq(all, IsListed)
    IN  <<"FAILED">> \o
        [i \in 1..Len(parts) |->
            DetailWord(IF i = 1 THEN "(" ELSE "", parts[i][1], Numeral(parts[i][2]),
                       IF i = Len(parts) THEN ")" ELSE ",")]

FailedLines ==
    {FailedLine(x, y, z) : x \in 0..MaxTests, y \in 0..MaxTests, z \in 0..MaxTests}
    \ {<<"FAILED">>}

ResultLines ==
    FailedLines
    \cup {<<"OK">>,
          <<"OK", DetailWord("(", "skipped", "1", ")")>>,
          <<"FAILED", DetailWord("(", "failures", "1", "")>>}

UpTo(lines, n) == UNION {[1..k -> lines] : k \in 0..n}

DjangoOutputs ==
    {v \o r \o e : v \in UpTo(VerboseLines, MaxVerbose),
                   r \in {<<>>} \cup {<<RanLine(n)>> : n \in RanCounts},
                   e \in OneOrNone(ResultLines)}

PInit ==
    /\ p_pc = "call"
    /\ \/ p_parser = "pytest" /\ p_output \in Outputs
       \/ p_parser = "django" /\ p_output \in DjangoOutputs
    /\ p_stats = NoStats

PIdle ==
    /\ p_pc = "idle"
    /\ p_parser = "pytest"
    /\ p_output = <<>>
    /\ p_stats = NoStats

ParsePytest ==
    /\ p_pc = "call"
    /\ p_parser = "pytest"
    /\ p_stats' = parse_pytest(p_output)
    /\ p_pc' = "returned"
    /\ UNCHANGED <<p_parser, p_output>>

ParseDjango ==
    /\ p_pc = "call"
    /\ p_parser = "django"
    /\ p_stats' = parse_django_output(p_output)
    /\ p_pc' = "returned"
    /\ UNCHANGED <<p_parser, p_output>>

PNext ==
    \/ ParsePytest /\ UNCHANGED <<v_vars, t_vars, d_vars, b_vars, l_vars, e_vars>>
    \/ ParseDjango /\ UNCHANGED <<v_vars, t_vars, d_vars, b_vars, l_vars, e_vars>>

\* ------------------------------------------------- Django test labels
\* A target or a label is text cut at its separators: the parts between
\* them, whether ".py" ends it, and whether a separator ends it.
\* "tests/queries/test_qs.py" is the parts tests, queries, test_qs cut at
\* "/" with ".py" at the end; "queries.test_qs" is two parts cut at ".".
SegmentNames == {"tests", "queries", "django", "test_qs"}

Text(sep, parts, py, trail) == [sep |-> sep, parts |-> parts, py |-> py, trail |-> trail]

Endings == {"plain", "py", "slash"}

\* the targets: a file "a/b.py", a module or directory "a/b", a directory "a/b/"
Paths ==
    {Text("/", segs, e = "py", e = "slash") :
        segs \in UNION {[1..n -> SegmentNames] : n \in 1..MaxSegments}, e \in Endings}

NoText == Text("", <<>>, FALSE, FALSE)

\* a == b for two texts: one part with nothing after it reads the same
\* whatever the separator
SameText(a, b) ==
    /\ a.parts = b.parts
    /\ a.py = b.py
    /\ a.trail = b.trail
    /\ (a.sep = b.sep \/ (Len(a.parts) <= 1 /\ ~a.trail))

\* '/' in tf or tf.endswith('.py')
LooksLikePath(tf) == (tf.sep = "/" /\ (Len(tf.parts) > 1 \/ tf.trail)) \/ (tf.py /\ ~tf.trail)

\* if tf.endswith('.py'): tf = tf[:-3]
StripPy(tf) == IF tf.py /\ ~tf.trail THEN [tf EXCEPT !.py = FALSE] ELSE tf

\* tf.replace('/', '.')
SlashesToDots(tf) == [tf EXCEPT !.sep = "."]

\* if tf.startswith('tests.'): tf = tf[6:]
DropTestsPrefix(tf) ==
    IF tf.parts # <<>> /\ tf.parts[1] = "tests" /\ (Len(tf.parts) > 1 \/ tf.trail)
    THEN [tf EXCEPT !.parts = Tail(tf.parts), !.trail = tf.trail /\ Len(tf.parts) > 1]
    ELSE tf

\* the label the retry of run_django_tests_with_retry makes of a target
RetryLabel(tf) == DropTestsPrefix(SlashesToDots(StripPy(tf)))

\* file_path.rstrip('/')
StripSlashes(tf) == [tf EXCEPT !.trail = FALSE]

\* convert_to_django_test_labels, for one file path
convert_to_django_test_labels(file_path) ==
    LET stripped == StripSlashes(StripPy(file_path))
        parts == stripped.parts
    IN  IF parts[1] = "tests" /\ Len(parts) >= 2
        THEN Text(".", Tail(parts), stripped.py, FALSE)
        ELSE Text(".", parts, stripped.py, FALSE)

\* what a run of the Django runner ends with: the tests pass, a test fails,
\* a module is missing, an app cannot be imported
LabelOutcomes == {"ok", "fails", "missing", "apperror"}

LInit ==
    /\ l_pc = "first"
    /\ l_path \in Paths
    /\ l_invoked = <<>>
    /\ l_first = None
    /\ l_last = None
    /\ l_label = NoText

LIdle ==
    /\ l_pc = "idle"
    /\ l_path = NoText
    /\ l_invoked = <<>>
    /\ l_first = None
    /\ l_last = None
    /\ l_label = NoText

\* result = run_django_tests(container_name, repo_dir, test_files, timeout)
LabelsFirstRun ==
    /\ l_pc = "first"
    /\ l_invoked' = Append(l_invoked, l_path)
    /\ \E outcome \in LabelOutcomes : l_first' = outcome /\ l_last' = outcome
    /\ l_pc' = "import_check"
    /\ UNCHANGED <<l_path, l_label>>

\* a missing module is installed and the same targets are run again
LabelsInstallRerun ==
    /\ l_pc = "import_check"
    /\ \/ /\ l_first = "missing"
          /\ l_invoked' = Append(l_invoked, l_path)
          /\ l_last' \in LabelOutcomes
       \/ UNCHANGED <<l_invoked, l_last>>
    /\ l_pc' = "app_check"
    /\ UNCHANGED <<l_path, l_first, l_label>>

\* the targets are made labels and run once more, when the latest run failed,
\* the first run's text names an import error, and the targets look like
\* file paths
LabelsConvertRerun ==
    /\ l_pc = "app_check"
    /\ IF /\ ConvertLabels(l_first, l_last, LooksLikePath(l_path))
          /\ ~SameText(RetryLabel(l_path), l_path)
       THEN /\ l_invoked' = Append(l_invoked, RetryLabel(l_path))
            /\ l_last' \in LabelOutcomes
       ELSE UNCHANGED <<l_invoked, l_last>>
    /\ l_pc' = "returned"
    /\ UNCHANGED <<l_path, l_first, l_label>>

\* convert_to_django_test_labels([file_path])
ConvertToDjangoTestLabels ==
    /\ l_pc # "idle"
    /\ l_label = NoText
    /\ l_label' = convert_to_django_test_labels(l_path)
    /\ UNCHANGED <<l_pc, l_path, l_invoked, l_first, l_last>>

LNext ==
    \/ LabelsFirstRun /\ UNCHANGED <<v_vars, t_vars, d_vars, b_vars, p_vars, e_vars>>
    \/ LabelsInstallRerun /\ UNCHANGED <<v_vars, t_vars, d_vars, b_vars, p_vars, e_vars>>
    \/ LabelsConvertRerun /\ UNCHANGED <<v_vars, t_vars, d_vars, b_vars, p_vars, e_vars>>
    \/ ConvertToDjangoTestLabels /\ UNCHANGED <<v_vars, t_vars, d_vars, b_vars, p_vars, e_vars>>

\* ------------------------------------------------------ evaluate_patch_docker
\* The single-request evaluator: one request with the combined patch, and the
\* verdict computed from the counts of the answer.

\* result["passed"] for an answer with status 200, without the branch for
\* collected tests
EvaluatorPassedOnPassedOnly(response_data) ==
    /\ Get(response_data, "passed", 0) > 0
    /\ Get(response_data, "failed", 0) = 0
    /\ Get(response_data, "errors", 0) = 0

\* result["passed"] for an answer with status 200
EvaluatorPassed(response_data) ==
    LET passed_count == Get(response_data, "passed", 0)
        failed_count == Get(response_data, "failed", 0)
        errors_count == Get(response_data, "errors", 0)
        collected == Get(response_data, "collected", 0)
    IN  IF collected > 0 /\ passed_count = 0 /\ failed_count = 0 /\ errors_count = 0
        THEN TRUE
        ELSE passed_count > 0 /\ failed_count = 0 /\ errors_count = 0

\* the result dict as it is set up before the request
FreshResult(instance) ==
    [instance_id |-> instance.instance_id, passed |-> FALSE, error |-> None,
     method |-> "gcp_docker"]

\* the result dict after an answer with status 200; the message is kept as
\* the pieces of its f-string
EvaluatedResult(result, response_data) ==
    LET verdict == EvaluatorPassed(response_data)
        failed_count == Get(response_data, "failed", 0)
        errors_count == Get(response_data, "errors", 0)
    IN  [stats |-> [passed |-> Get(response_data, "passed", 0),
                    failed |-> failed_count, errors |-> errors_count]]
        @@ [result EXCEPT
                !.passed = verdict,
                !.error = IF verdict THEN None
                          ELSE <<"Tests failed: ", failed_count, " failed, ",
                                 errors_count, " errors">>]

EInit ==
    /\ e_pc = "post"
    /\ e_instance \in Range(InstancesOf(<<"django/django", "psf/requests">>))
    /\ e_response = NoResponse
    /\ e_result = NoResult

EIdle ==
    /\ e_pc = "idle"
    /\ e_instance = NoResult
    /\ e_response = NoResponse
    /\ e_result = NoResult

\* the result dict is set up and the request is posted; requests.post
\* returns, or raises requests.Timeout or another exception
EvaluatePost ==
    /\ e_pc = "post"
    /\ e_result' = FreshResult(e_instance)
    /\ \E resp \in Responses :
        /\ e_response' = resp
        /\ e_pc' = CASE resp.kind = "timeout" -> "timeout"
                     [] resp.kind = "raise" -> "except"
                     [] OTHER -> "status"
    /\ UNCHANGED e_instance

\* if response.status_code == 200: ... else: ...; return result
EvaluateStatus ==
    /\ e_pc = "status"
    /\ e_result' =
            IF e_response.status = 200
            THEN EvaluatedResult(e_result, e_response.body)
            ELSE [e_result EXCEPT
                    !.error = <<"GCP tester returned status ", e_response.status>>]
    /\ e_pc' = "done"
    /\ UNCHANGED <<e_instance, e_response>>

\* except requests.Timeout
EvaluateTimeout ==
    /\ e_pc = "timeout"
    /\ e_result' = [e_result EXCEPT !.error = <<"GCP tester request timed out">>]
    /\ e_pc' = "done"
    /\ UNCHANGED <<e_instance, e_response>>

\* except Exception as e
EvaluateExcept ==
    /\ e_pc = "except"
    /\ e_result' = [e_result EXCEPT
                        !.error = <<"GCP tester exception: ", ExceptionText(e_response)>>]
    /\ e_pc' = "done"
    /\ UNCHANGED <<e_instance, e_response>>

ENext ==
    \/ EvaluatePost /\ UNCHANGED <<v_vars, t_vars, d_vars, b_vars, p_vars, l_vars>>
    \/ EvaluateStatus /\ UNCHANGED <<v_vars, t_vars, d_vars, b_vars, p_vars, l_vars>>
    \/ EvaluateTimeout /\ UNCHANGED <<v_vars, t_vars, d_vars, b_vars, p_vars, l_vars>>
    \/ EvaluateExcept /\ UNCHANGED <<v_vars, t_vars, d_vars, b_vars, p_vars, l_vars>>

InitBatch == BInit /\ VIdle /\ TIdle /\ DIdle /\ PIdle /\ LIdle /\ EIdle

SpecBatch == InitBatch /\ [][BNext]_vars

InitValidate == VInit /\ TIdle /\ DIdle /\ BIdle /\ PIdle /\ LIdle /\ EIdle

SpecValidate == InitValidate /\ [][VNext]_vars

InitRunTest == TInit /\ VIdle /\ DIdle /\ BIdle /\ PIdle /\ LIdle /\ EIdle

SpecRunTest == InitRunTest /\ [][TNext]_vars

InitDistribute == DInit /\ VIdle /\ TIdle /\ BIdle /\ PIdle /\ LIdle /\ EIdle

SpecDistribute == InitDistribute /\ [][DNext]_vars

InitParse == PInit /\ VIdle /\ TIdle /\ DIdle /\ BIdle /\ LIdle /\ EIdle

SpecParse == InitParse /\ [][PNext]_vars

InitLabels == LInit /\ VIdle /\ TIdle /\ DIdle /\ BIdle /\ PIdle /\ EIdle

SpecLabels == InitLabels /\ [][LNext]_vars

InitEvaluate == EInit /\ VIdle /\ TIdle /\ DIdle /\ BIdle /\ PIdle /\ LIdle

SpecEvaluate == InitEvaluate /\ [][ENext]_vars

\* ======================================================== the claims
\* the pass criterion as the specification words it, absent counts read as 0
CountOf(stats, k) == IF k \in DOMAIN stats THEN stats[k] ELSE 0

CountsAsPassed(stats) ==
    /\ CountOf(stats, "failed") = 0
    /\ CountOf(stats, "errors") = 0
    /\ (CountOf(stats, "passed") > 0 \/ CountOf(stats, "collected") > 0)

BothAnswered ==
    /\ v_pc = "done"
    /\ response1.kind = "response" /\ response1.status = 200
    /\ response2.kind = "response" /\ response2.status = 200

\* C1: in derived two-phase validation, when the run with only the test patch
\* counts as passed, the returned result has valid = false, whatever the
\* with-fix request returned (a 200 with any counts, a non-200, an exception).
C1_TestOnlyPassedNeverValid ==
    (/\ v_pc = "done"
     /\ response1.kind = "response" /\ response1.status = 200
     /\ CountsAsPassed(response1.body))
    => v_result.valid = FALSE

\* C1 witness: both runs count as passed and the result is returned invalid.
C1_Witness ==
    /\ BothAnswered
    /\ CountsAsPassed(response1.body)
    /\ CountsAsPassed(response2.body)
    /\ v_result.valid = FALSE

\* C2: a run counts as passed iff failed = 0 and errors = 0 and (passed > 0 or
\* collected > 0), absent counts read as 0; valid = (not testOnlyPassed) and
\* withFixPassed for all four combinations; a reason is recorded whenever
\* valid is false.
C2_PassCriterionAndVerdict ==
    BothAnswered =>
        /\ v_result.test_only.passed = CountsAsPassed(response1.body)
        /\ v_result.with_fix.passed = CountsAsPassed(response2.body)
        /\ v_result.valid = (~CountsAsPassed(response1.body) /\ CountsAsPassed(response2.body))
        /\ (v_result.valid = FALSE => v_result.error # None)
        /\ (v_result.valid = TRUE => v_result.error = None)

\* C2 witness: the with-fix run passes on its collected count alone (no passed
\* key in the body) after a failing test-only run, and the result is valid.
C2_Witness ==
    /\ BothAnswered
    /\ "passed" \notin DOMAIN response2.body
    /\ CountOf(response2.body, "collected") > 0
    /\ CountOf(response1.body, "failed") > 0
    /\ v_result.valid = TRUE

\* C3: for every /test request that reaches the container start, the sandbox
\* removal is invoked exactly once and is the last command of the request, on
\* every path (success, no tests to run, 422, 504, container start failure,
\* any other exception).
C3_RemovalExactlyOnceAndLast ==
    /\ t_rm_calls <= 1
    /\ (t_pc = "done" /\ "docker run" \in Range(t_trace)) =>
        /\ t_rm_calls = 1
        /\ t_trace[Len(t_trace)] = "docker rm"
        /\ Cardinality({i \in DOMAIN t_trace : t_trace[i] = "docker rm"}) = 1
        /\ t_container # "running"

\* C3 witness: a request whose test run timed out (504) ends with the sandbox
\* removed.
C3_Witness ==
    /\ t_pc = "done"
    /\ t_response.status = 504
    /\ t_container = "removed"
    /\ t_rm_calls = 1

\* the results the aggregate lists for one instance
ResultsFor(inst) ==
    {k \in DOMAIN summary.results : summary.results[k].instance_id = inst.instance_id}

\* the retries submitted for one instance
RetriesOf(inst) == {j \in DOMAIN retry_futures : retry_futures[j].instance = inst}

\* what the collecting loop recorded for a failed first attempt of an instance
FirstFailuresOf(inst) ==
    {failed_instances[k].result : k \in {x \in DOMAIN failed_instances :
                                            failed_instances[x].instance = inst}}

\* C4: after validate_all the aggregate's results list holds every requested
\* instance exactly once, so total_instances is the number of requested
\* instances.
C4_EveryInstanceExactlyOnce ==
    b_pc = "done" =>
        /\ \A i \in DOMAIN instances : Cardinality(ResultsFor(instances[i])) = 1
        /\ summary.total_instances = Len(instances)

\* C5: when an instance is retried, the aggregate holds the retry's result for
\* it and no longer holds the first attempt's result.
C5_RetryReplacesFirstAttempt ==
    b_pc = "done" =>
        \A j \in DOMAIN retry_futures :
            /\ \A k \in ResultsFor(retry_futures[j].instance) :
                  summary.results[k] = retry_futures[j].result
            /\ Cardinality(ResultsFor(retry_futures[j].instance)) = 1

\* C6: only attempts that ended in an error result are retried; an attempt in
\* which both runs completed and the contract was judged not met is never
\* retried.
C6_ContractFailuresNotRetried ==
    \A j \in DOMAIN retry_futures :
        \A r \in FirstFailuresOf(retry_futures[j].instance) : "test_only" \notin DOMAIN r

\* C7: the number of retries submitted for an instance during one batch is at
\* most max_retries; with max_retries = 0 none is submitted.
C7_RetriesWithinBudget ==
    \A i \in DOMAIN instances : Cardinality(RetriesOf(instances[i])) <= max_retries

\* C7 witness: with max_retries = 1 an instance was retried once, its retry
\* failed too, and the batch finished without a further retry.
C7_Witness ==
    /\ b_pc = "done"
    /\ max_retries = 1
    /\ \E j \in DOMAIN retry_futures :
        /\ retry_futures[j].result.valid = FALSE
        /\ Cardinality(RetriesOf(retry_futures[j].instance)) = 1

\* C8: with at least two workers in the pool, a retry goes to a worker other
\* than the one that ran the failed first attempt, however the attempt failed.
C8_RetryOnDifferentWorker ==
    Len(worker_urls) >= 2 =>
        \A j \in DOMAIN retry_futures : \A i \in DOMAIN futures :
            futures[i].instance = retry_futures[j].instance
                => retry_futures[j].worker_url # futures[i].worker_url

\* C9: no retry is submitted for an instance whose attempt ended with a
\* patch-apply failure (worker status 422).
C9_PatchFailureNotRetried ==
    \A j \in DOMAIN retry_futures :
        \A r \in FirstFailuresOf(retry_futures[j].instance) : r.error # "Worker returned 422"

\* the places (worker, index) where the returned dict lists an instance
PlacesOf(inst) ==
    {p \in Range(d_workers) \X (1..Len(d_instances)) :
        /\ p[2] \in DOMAIN d_assignments[p[1]]
        /\ d_assignments[p[1]][p[2]] = inst}

RECURSIVE TotalAssigned(_)
TotalAssigned(urls) ==
    IF urls = <<>> THEN 0 ELSE Len(d_assignments[Head(urls)]) + TotalAssigned(Tail(urls))

\* C10: distribute_load partitions the batch: every instance is in exactly one
\* worker's list, exactly once, and nothing is added or dropped.
C10_DistributeLoadPartitions ==
    d_pc = "returned" =>
        /\ DOMAIN d_assignments = Range(d_workers)
        /\ \A i \in DOMAIN d_instances : Cardinality(PlacesOf(d_instances[i])) = 1
        /\ TotalAssigned(d_workers) = Len(d_instances)

\* C10 witness: a batch of three repositories over two workers, one worker
\* receiving two whole groups.
C10_Witness ==
    /\ d_pc = "returned"
    /\ Len(d_workers) = 2
    /\ Cardinality({d_instances[i].repo : i \in DOMAIN d_instances}) = 3
    /\ \E w \in Range(d_workers) :
        Cardinality({d_assignments[w][k].repo : k \in DOMAIN d_assignments[w]}) = 2

\* the load of a worker in the returned dict, in tenths: the sum of the
\* complexity weights of the instances it was given
RECURSIVE LoadOfList(_)
LoadOfList(insts) ==
    IF insts = <<>> THEN 0 ELSE Weight10(Head(insts).repo) + LoadOfList(Tail(insts))

WorkerLoads == {LoadOfList(d_assignments[w]) : w \in Range(d_workers)}

MaxOf(S) == CHOOSE x \in S : \A y \in S : y <= x

MinOf(S) == CHOOSE x \in S : \A y \in S : x <= y

\* the load (count x weight) of the largest repository group of the batch,
\* 0 for an empty batch
LargestGroupLoad ==
    LET groups == RepoComplexities(d_instances)
    IN  MaxOf({0} \cup {groups[k].complexity : k \in DOMAIN groups})

\* C11: after distribute_load, for every batch and every non-empty pool, the
\* greatest worker load minus the least worker load is at most the load of
\* the single largest repository group.
C11_LoadSpreadWithinLargestGroup ==
    d_pc = "returned" =>
        MaxOf(WorkerLoads) - MinOf(WorkerLoads) <= LargestGroupLoad

\* C11 witness: two workers, both loaded, unequal loads, and a worker holding
\* more than one group.
C11_Witness ==
    /\ d_pc = "returned"
    /\ Len(d_workers) = 2
    /\ MinOf(WorkerLoads) > 0
    /\ MaxOf(WorkerLoads) > MinOf(WorkerLoads)
    /\ \E w \in Range(d_workers) :
        Cardinality({d_assignments[w][k].repo : k \in DOMAIN d_assignments[w]}) >= 2

\* the validations running against a worker: the calls of both thread pools
\* that have started and not yet finished
InFlight(w) ==
    Cardinality({i \in DOMAIN futures :
                    futures[i].state = "running" /\ futures[i].worker_url = w})
    + Cardinality({j \in DOMAIN retry_futures :
                    retry_futures[j].state = "running" /\ retry_futures[j].worker_url = w})

\* C12: at every moment of validate_all, the validations in flight against
\* any single worker are at most max_workers_per_instance.
C12_InFlightPerWorkerWithinLimit ==
    b_pc # "idle" =>
        \A w \in Range(worker_urls) : InFlight(w) <= max_workers_per_instance

\* a finished /test request in explicit-list mode whose tests ran and were
\* parsed, answered with the normal return
ExplicitMode == t_pc # "idle" /\ (t_req.fail_to_pass \/ t_req.pass_to_pass)

AnsweredWithOutcome ==
    /\ t_pc = "done"
    /\ t_response.kind = "return"
    /\ t_stats # NoStats

\* C13: explicit-list mode with a non-empty patch: contract_met is true iff
\* the parsed outcome has failed = 0 and errors = 0; otherwise it is false
\* and the reason names the failed and the error counts.
C13_WithPatchContract ==
    (ExplicitMode /\ AnsweredWithOutcome /\ PatchGiven(t_req.patch)) =>
        LET body == t_response.body
        IN  /\ body.contract_met = (body.failed = 0 /\ body.errors = 0)
            /\ ~body.contract_met =>
                body.contract_reason =
                    <<"With patch: ", body.failed, " failed, ", body.errors,
                      " errors (expected 0)">>

\* C13 witness: a patched explicit-list run with no failure and one error,
\* reported as contract not met.
C13_Witness ==
    /\ ExplicitMode /\ AnsweredWithOutcome /\ PatchGiven(t_req.patch)
    /\ t_response.body.failed = 0
    /\ t_response.body.errors > 0
    /\ ~t_response.body.contract_met

\* C14 as stated: explicit-list mode with an empty or whitespace-only patch:
\* contract_met is true only if failed + errors > 0, for every combination
\* of supplied lists.
C14_WithoutPatchNeedsFailures ==
    (ExplicitMode /\ AnsweredWithOutcome /\ ~PatchGiven(t_req.patch)) =>
        (t_response.body.contract_met =>
            t_response.body.failed + t_response.body.errors > 0)

\* C14 amended: explicit-list mode with an empty or whitespace-only patch:
\* when fail_to_pass is supplied (alone or with pass_to_pass) contract_met is
\* true only if failed + errors > 0; when only pass_to_pass is supplied
\* contract_met is true whatever the counts.
C14_WithoutPatchContract ==
    (ExplicitMode /\ AnsweredWithOutcome /\ ~PatchGiven(t_req.patch)) =>
        LET body == t_response.body
        IN  /\ t_req.fail_to_pass => (body.contract_met => body.failed + body.errors > 0)
            /\ ~t_req.fail_to_pass => body.contract_met

\* C14 witness: an unpatched run with only pass_to_pass supplied and no
\* failure at all, reported as contract met.
C14_Witness ==
    /\ ExplicitMode /\ AnsweredWithOutcome /\ ~PatchGiven(t_req.patch)
    /\ ~t_req.fail_to_pass
    /\ t_response.body.failed + t_response.body.errors = 0
    /\ t_response.body.contract_met

\* C15: the tests of a request are chosen in strict priority order: the
\* explicit node ids whenever either list is supplied, even with test_files
\* given; otherwise the given test_files unless absent, empty or ["all"];
\* otherwise the files inferred from the diff; a lower source is used only
\* when every higher one is absent.
C15_SelectionPriority ==
    (t_pc # "idle" /\ t_targets # "unset") =>
        LET given == t_req.test_files \in {"files", "labels"}
        IN  /\ ExplicitMode => t_targets = "nodes"
            /\ (~ExplicitMode /\ given) => t_targets = "given"
            /\ (~ExplicitMode /\ ~given) => t_targets \in {"diff", "headers", "none"}
            /\ t_targets = "given" => ~ExplicitMode
            /\ t_targets \in {"diff", "headers"} => (~ExplicitMode /\ ~given)

\* C15 witness: both an explicit list and test_files supplied, the node ids
\* were run.
C15_Witness ==
    /\ ExplicitMode
    /\ t_req.test_files = "files"
    /\ t_targets = "nodes"
    /\ t_runs # <<>>

\* C16: with no explicit list and no test file supplied or inferred, the
\* request ends with the "No tests to run" outcome (all counts zero,
\* contract_met false), no test command having run, nothing raised, and the
\* sandbox removed.
C16_NoTestsOutcome ==
    (t_pc = "done" /\ ~ExplicitMode /\ t_targets = "none") =>
        /\ t_response.kind = "return"
        /\ t_response.status = 200
        /\ t_response.body.passed = 0
        /\ t_response.body.failed = 0
        /\ t_response.body.errors = 0
        /\ t_response.body.contract_met = FALSE
        /\ t_response.body.reason = "No tests to run"
        /\ t_runs = <<>>
        /\ "run tests" \notin Range(t_trace)
        /\ t_container = "removed"
        /\ t_rm_calls = 1

\* C16 witness: test_files = ["all"], a patch applied, no changed test file
\* found, and the request answered.
C16_Witness ==
    /\ t_pc = "done"
    /\ ~ExplicitMode
    /\ t_req.test_files = "all"
    /\ PatchGiven(t_req.patch)
    /\ t_targets = "none"
    /\ t_response.kind = "return"

\* the place of a step in the order provision, locate repository, apply
\* patch, select, execute, parse, contract check, teardown
StepRank(step) ==
    CASE step = "docker pull" -> 0
      [] step = "docker run" -> 1
      [] step = "find repo" -> 2
      [] step = "git apply" -> 3
      [] step = "select tests" -> 4
      [] step = "run tests" -> 5
      [] step = "parse" -> 6
      [] step = "contract" -> 7
      [] OTHER -> 8

\* C17: the steps of a request happen strictly in the order provision,
\* locate repository, apply patch, select and execute tests, parse, contract
\* check, teardown; after a patch failure no test command runs and only the
\* teardown follows; nothing follows the teardown.
C17_StepOrder ==
    /\ \A i \in 1..(Len(t_trace) - 1) : StepRank(t_trace[i]) < StepRank(t_trace[i + 1])
    /\ t_runs # <<>> => "run tests" \in Range(t_trace)
    /\ t_pc \in {"install", "rerun", "fallback", "labels"} =>
            t_trace[Len(t_trace)] = "run tests"
    /\ "docker rm" \in Range(t_trace) => t_pc = "done"
    /\ t_pending.status = 422 =>
            /\ t_pc \in {"finally", "done"}
            /\ t_runs = <<>>
            /\ \A i \in DOMAIN t_trace :
                (t_trace[i] = "git apply" /\ i < Len(t_trace)) =>
                    (i + 1 = Len(t_trace) /\ t_trace[i + 1] = "docker rm")

\* C17 witness: a request ended by a patch failure, with nothing between the
\* patch step and the teardown.
C17_Witness ==
    /\ t_pc = "done"
    /\ t_response.status = 422
    /\ t_trace = <<"docker pull", "docker run", "find repo", "git apply", "docker rm">>

\* C18: if any test-command invocation of a request exceeds the timeout, the
\* request ends with status 504, never with a parsed outcome, and the sandbox
\* is removed.
C18_TimeoutEndsWith504 ==
    (\E i \in DOMAIN t_runs : t_runs[i].outcome = "timeout") =>
        /\ t_pc \in {"finally", "done"}
        /\ t_pending = [kind |-> "raise", status |-> 504, body |-> <<>>]
        /\ t_stats = NoStats
        /\ t_pc = "done" =>
            /\ t_response = [kind |-> "raise", status |-> 504, body |-> <<>>]
            /\ t_container = "removed"
            /\ t_rm_calls = 1

\* C18 witness: the re-run after an installation timed out and the request
\* was answered.
C18_Witness ==
    /\ t_pc = "done"
    /\ Len(t_runs) = 2
    /\ t_runs[2] = [what |-> "rerun", outcome |-> "timeout"]

\* C19: on each execution path, after a first failure that matches a
\* missing-module or missing-fixture pattern there is at most one automatic
\* installation and at most one re-run of the same invocation, and a second
\* failure of the same kind is returned as it is, with no further run.
C19_OneInstallOneRerun ==
    /\ t_installs <= 1
    /\ NumRuns("rerun") <= 1
    /\ \A i \in DOMAIN t_runs :
        (t_runs[i].what = "rerun" /\ t_runs[i].outcome = "missing") => i = Len(t_runs)

\* C20: for an output whose bordered summary line reads "1 failed, 96
\* warnings in 0.15s" and which is followed by the conda tool-error line, the
\* parser returns failed = 1, passed = 0, errors = 0.
C20_FailedSummaryBeforeToolError ==
    (/\ p_pc = "returned"
     /\ p_parser = "pytest"
     /\ Len(p_output) >= 2
     /\ p_output[Len(p_output) - 1] = FailedWithWarningsLine
     /\ p_output[Len(p_output)] = CondaErrorLine) =>
        /\ p_stats.failed = 1
        /\ p_stats.passed = 0
        /\ p_stats.errors = 0

\* a timed summary line that lists counts of passed, failed, error(s) and
\* skipped only, separated by commas
ListedWords ==
    {"passed", "passed,", "failed", "failed,", "error", "error,", "errors", "errors,",
     "skipped", "skipped,"}

ListedSummary(line) ==
    /\ Len(line) >= 6
    /\ line[1] = "===="
    /\ line[Len(line)] = "===="
    /\ line[Len(line) - 1] = "0.15s"
    /\ line[Len(line) - 2] = "in"
    /\ \A k \in 2..(Len(line) - 3) :
        IF k % 2 = 0 THEN line[k] \in DOMAIN NumeralValue ELSE line[k] \in ListedWords

\* the count a summary line lists for the words of a kind, 0 when it lists
\* none
ListedCount(line, words) ==
    IF \E k \in DOMAIN line : k > 1 /\ line[k] \in words
    THEN NumeralValue[line[(CHOOSE k \in DOMAIN line : k > 1 /\ line[k] \in words) - 1]]
    ELSE 0

\* an output made of a "collected" line, maybe a test line, and a listed
\* summary line
CollectedThenListed ==
    /\ p_pc = "returned"
    /\ p_parser = "pytest"
    /\ Len(p_output) \in {2, 3}
    /\ p_output[1] \in CollectedLines
    /\ Len(p_output) = 3 => p_output[2] \in TestLines
    /\ ListedSummary(p_output[Len(p_output)])

\* C21: for an output with a "collected N item(s)" line and a timed summary
\* line that lists any of "P passed", "F failed", "E error(s)", "S skipped"
\* separated by commas, the parser returns exactly those counts, 0 for a
\* kind not listed, and collected = N.
C21_ListedCountsReturned ==
    CollectedThenListed =>
        LET line == p_output[Len(p_output)]
        IN  /\ p_stats.collected = NumeralValue[p_output[1][2]]
            /\ p_stats.passed = ListedCount(line, {"passed", "passed,"})
            /\ p_stats.failed = ListedCount(line, {"failed", "failed,"})
            /\ p_stats.errors = ListedCount(line, {"error", "error,", "errors", "errors,"})
            /\ p_stats.skipped = ListedCount(line, {"skipped", "skipped,"})

\* a line that carries a collection-failure or an internal-error marker
MarkerLine(line) ==
    \/ \E k \in DOMAIN line :
        /\ k + 1 \in DOMAIN line
        /\ \/ line[k] = "ERROR" /\ line[k + 1] = "collecting"
           \/ line[k] \in {"collection", "Collection"} /\ line[k + 1] = "failed"
    \/ \E k \in DOMAIN line : line[k] = "INTERNALERROR>"
    \/ (Len(line) > 0 /\ line[1] = "ERROR:")

\* C29: if a collection-failure marker or an internal-error marker occurs
\* anywhere in the output, the parser returns errors = 1 and every other
\* count 0, whatever summary line the text also contains.
C29_MarkersShortCircuit ==
    (/\ p_pc = "returned"
     /\ p_parser = "pytest"
     /\ \E i \in DOMAIN p_output : MarkerLine(p_output[i])) =>
        p_stats = [collected |-> 0, passed |-> 0, failed |-> 0, errors |-> 1, skipped |-> 0]

\* C29 witness: "Collection failed" on the first line, then a "collected"
\* line and a summary line that reports a passed test.
C29_Witness ==
    /\ p_pc = "returned"
    /\ p_parser = "pytest"
    /\ Len(p_output) = 3
    /\ p_output[1] = <<"Collection", "failed">>
    /\ p_output[2] \in CollectedLines
    /\ p_output[3] = <<"====", "1", "passed", "in", "0.15s", "====">>
    /\ p_stats.errors = 1
    /\ p_stats.passed = 0

\* the larger of 0 and n
AtLeastZero(n) == IF n < 0 THEN 0 ELSE n

\* the Django runner's output ends with "Ran n tests in" and the given line
RanThen(n, line) ==
    /\ p_pc = "returned"
    /\ p_parser = "django"
    /\ Len(p_output) >= 2
    /\ p_output[Len(p_output) - 1] = RanLine(n)
    /\ p_output[Len(p_output)] = line

\* C22: for output of the Django runner with a "Ran N test(s) in" line,
\* collected = N; with a closing "OK" line passed = N and failed = errors = 0;
\* with "FAILED (failures=X, errors=Y, skipped=Z)" failed = X, errors = Y,
\* skipped = Z and passed = max(0, N - X - Y - Z).
C22_RanMarkerCounts ==
    \A n \in RanCounts :
        RanThen(n, p_output[Len(p_output)]) =>
            /\ p_output[Len(p_output)] = <<"OK">> =>
                p_stats = [collected |-> n, passed |-> n, failed |-> 0, errors |-> 0,
                           skipped |-> 0]
            /\ \A x, y, z \in 0..MaxTests :
                (x + y + z > 0 /\ p_output[Len(p_output)] = FailedLine(x, y, z)) =>
                    p_stats = [collected |-> n, passed |-> AtLeastZero(n - x - y - z),
                               failed |-> x, errors |-> y, skipped |-> z]

\* C22 witness: "Ran 88 tests in" with "FAILED (failures=2, errors=1)" gives
\* 85 passed.
C22_Witness ==
    /\ RanThen(88, <<"FAILED", "(failures=2,", "errors=1)">>)
    /\ p_stats.collected = 88
    /\ p_stats.passed = 85
    /\ p_stats.failed = 2
    /\ p_stats.errors = 1

\* text with none of the markers the parsers know
UnmarkedLines == {<<"Traceback", "(most", "recent", "call", "last):">>}

RawErrorText(resp) ==
    CASE resp.kind = "raise" -> "ConnectionError"
      [] resp.kind = "timeout" -> "ReadTimeout"
      [] resp.kind = "response" /\ resp.status = 422 -> "Worker returned 422"
      [] resp.kind = "response" /\ resp.status = 500 -> "Worker returned 500"
      [] resp.kind = "response" /\ resp.status = 504 -> "Worker returned 504"

ExecutionFailed(resp) == resp.kind \in {"raise", "timeout"} \/ (resp.kind = "response" /\ resp.status # 200)

\* the request of the call that failed, the first if it did, else the second
FailedRequest == IF ExecutionFailed(response1) THEN response1 ELSE response2

\* C24: validate_instance_on_worker does not raise for an execution failure:
\* a timeout, a 422, 500 or 504 answer or an unreachable worker, in either of
\* the two requests, ends the call with a returned result that has
\* valid = false, the raw error text, and the same instance and worker.
C24_ExecutionFailureReturned ==
    /\ (v_pc = "except") => ENABLED ValidateExcept
    /\ (v_pc = "done" /\ (ExecutionFailed(response1) \/ ExecutionFailed(response2))) =>
        /\ v_result # NoResult
        /\ v_result.valid = FALSE
        /\ v_result.error = RawErrorText(FailedRequest)
        /\ v_result.instance_id = v_instance.instance_id
        /\ v_result.worker = v_worker

\* C24 witness: the first request answered 200 and the second timed out.
C24_Witness ==
    /\ v_pc = "done"
    /\ response1.kind = "response" /\ response1.status = 200
    /\ response2.kind = "timeout"
    /\ v_result.valid = FALSE
    /\ v_result.error = "ReadTimeout"

\* C26: when the request's patch is empty or whitespace only, the patch
\* step does nothing and succeeds: no "git apply" is run (so the working tree
\* is as the sandbox had it), no 422 results, and test selection follows the
\* locating of the repository directly; only an exception of another kind
\* (status 500) ends the request before the selection.
C26_BlankPatchSkipsApply ==
    t_req.patch \in {"", "   "} =>
        /\ "git apply" \notin Range(t_trace)
        /\ t_pending.status # 422
        /\ t_response.status # 422
        /\ t_pc = "select" => t_trace[Len(t_trace)] = "find repo"
        /\ \A i \in DOMAIN t_trace :
            t_trace[i] = "select tests" => (i > 1 /\ t_trace[i - 1] = "find repo")
        /\ (/\ t_pc \in {"finally", "done"}
            /\ "find repo" \in Range(t_trace)
            /\ "select tests" \notin Range(t_trace)) =>
                (t_pending.status = 500 \/ t_response.status = 500)

\* C26 witness: a request with a whitespace-only patch has run its tests and
\* returned, the selection next after the locating of the repository.
C26_Witness ==
    /\ t_req.patch = "   "
    /\ t_pc = "done"
    /\ t_response.kind = "return"
    /\ "run tests" \in Range(t_trace)
    /\ \E i \in DOMAIN t_trace :
        /\ t_trace[i] = "find repo"
        /\ i < Len(t_trace)
        /\ t_trace[i + 1] = "select tests"

\* the repositories of the batch, and the load of a repository's group:
\* instance count x weight, in tenths
BatchRepoSet == {d_instances[i].repo : i \in DOMAIN d_instances}

GroupLoad(repo) ==
    Weight10(repo) * Cardinality({i \in DOMAIN d_instances : d_instances[i].repo = repo})

\* the orders of the groups in which no group comes before a larger one
DescendingOrders ==
    {order \in [1..Cardinality(BatchRepoSet) -> BatchRepoSet] :
        /\ \A a, b \in DOMAIN order : a # b => order[a] # order[b]
        /\ \A a, b \in DOMAIN order : a < b => GroupLoad(order[a]) >= GroupLoad(order[b])}

\* the worker whose load is least, the first such in pool order
LeastLoaded(loads) ==
    d_workers[MinOf({k \in DOMAIN d_workers :
                        \A j \in DOMAIN d_workers : loads[d_workers[k]] <= loads[d_workers[j]]})]

\* greedy packing of whole groups taken in the given order: what each worker
\* holds after the groups from the k-th on are placed
RECURSIVE GreedyFrom(_, _, _, _)
GreedyFrom(order, k, held, loads) ==
    IF k > Len(order) THEN held
    ELSE LET w == LeastLoaded(loads)
             group == SelectSeq(d_instances, LAMBDA inst : inst.repo = order[k])
         IN  GreedyFrom(order, k + 1,
                        [held EXCEPT ![w] = @ \o group],
                        [loads EXCEPT ![w] = @ + GroupLoad(order[k])])

\* C28: distribute_load is largest-first greedy packing of whole repository
\* groups: the groups are taken in descending order of load (instance count
\* x weight, weight 1.0 for an unlisted repository) and each whole group goes
\* to the worker whose load is least at that moment, the first such worker in
\* pool order on a tie; hence all instances of one repository end on the
\* same worker.
C28_LargestFirstGreedy ==
    d_pc = "returned" =>
        /\ \E order \in DescendingOrders :
            d_assignments =
                GreedyFrom(order, 1, [w \in Range(d_workers) |-> <<>>],
                           [w \in Range(d_workers) |-> 0])
        /\ \A i, j \in DOMAIN d_instances :
            d_instances[i].repo = d_instances[j].repo =>
                \E w \in Range(d_workers) :
                    {d_instances[i], d_instances[j]} \subseteq Range(d_assignments[w])

\* C28 witness: the batch names a light repository first and a heavier one
\* after it; the heavier group, two instances of it, is on the first worker
\* and the light one on the second.
C28_Witness ==
    /\ d_pc = "returned"
    /\ Len(d_workers) = 2
    /\ Len(d_instances) = 3
    /\ d_instances[1].repo = "psf/requests"
    /\ d_instances[2].repo = "django/django"
    /\ d_instances[3].repo = "django/django"
    /\ d_assignments[d_workers[1]] = <<d_instances[2], d_instances[3]>>
    /\ d_assignments[d_workers[2]] = <<d_instances[1]>>

\* C27: before assignment the dispatcher filters the worker pool with GET
\* /health: no instance is assigned or sent to a worker that did not answer
\* the health check.
C27_OnlyAnsweringWorkersUsed ==
    /\ \A i \in DOMAIN futures : futures[i].worker_url \in answering
    /\ \A j \in DOMAIN retry_futures : retry_futures[j].worker_url \in answering

\* the sum of the counts of a dict
RECURSIVE SumOfCounts(_)
SumOfCounts(counts) ==
    IF DOMAIN counts = {} THEN 0
    ELSE LET k == CHOOSE key \in DOMAIN counts : TRUE
         IN  counts[k] + SumOfCounts([key \in DOMAIN counts \ {k} |-> counts[key]])

\* C30: in every summary validate_all produces, total_instances =
\* len(results) = valid_instances + invalid_instances; the per-repository
\* totals sum to total_instances, with valid <= total for each repository;
\* and the per-worker counts sum to total_instances.
C30_SummaryCountsAddUp ==
    summary # NoSummary =>
        /\ summary.total_instances = Len(summary.results)
        /\ summary.total_instances = summary.valid_instances + summary.invalid_instances
        /\ SumOfCounts([r \in DOMAIN summary.by_repository |->
                            summary.by_repository[r].total]) = summary.total_instances
        /\ \A r \in DOMAIN summary.by_repository :
            summary.by_repository[r].valid <= summary.by_repository[r].total
        /\ SumOfCounts(summary.by_worker) = summary.total_instances

\* C30 witness: a finished batch whose summary counts a valid and an invalid
\* result.
C30_Witness ==
    /\ b_pc = "done"
    /\ summary # NoSummary
    /\ summary.valid_instances >= 1
    /\ summary.invalid_instances >= 1
    /\ Cardinality(DOMAIN summary.by_repository) >= 1
    /\ SumOfCounts(summary.by_worker) >= 2

\* the targets the translation rule speaks of: a file or module path with
\* a "/" or ".py" in it, and "tests/<app>/" for a directory
UnderTests(path) == path.parts[1] = "tests" /\ Len(path.parts) >= 2

IsFilePath(path) ==
    /\ path.sep = "/"
    /\ Len(path.parts) > 1 \/ path.py
    /\ path.trail => (UnderTests(path) /\ Len(path.parts) = 2)
    /\ ~(UnderTests(path) /\ Len(path.parts) = 2 /\ path.py)

\* the label the rule gives: "<app>.<module>" for "tests/<app>/<module>",
\* "<app>" for "tests/<app>", and for any other path every segment kept
ExpectedLabel(path) ==
    IF UnderTests(path) /\ Len(path.parts) \in {2, 3}
    THEN Text(".", Tail(path.parts), FALSE, FALSE)
    ELSE Text(".", path.parts, FALSE, FALSE)

\* C25: every file-path target of the Django runner is turned into a label
\* before the runner is invoked: "tests/<app>/<module>.py" becomes
\* "<app>.<module>", "tests/<app>" or "tests/<app>/" becomes "<app>", and any
\* other path (not under tests/, or nested deeper) has ".py" removed and
\* every "/" replaced by "." with no prefix dropped.
C25_TargetsTurnedIntoLabels ==
    (l_pc # "idle" /\ IsFilePath(l_path)) =>
        /\ \A i \in DOMAIN l_invoked : l_invoked[i] = ExpectedLabel(l_path)
        /\ l_label # NoText => l_label = ExpectedLabel(l_path)

\* C37: when neither fail_to_pass nor pass_to_pass is supplied and test
\* targets were found, the response has contract_met = true and
\* contract_reason = "OK", whatever the parsed counts are.
C37_NoListsContractAlwaysMet ==
    (/\ t_pc = "done"
     /\ ~t_req.fail_to_pass /\ ~t_req.pass_to_pass
     /\ t_targets \notin {"unset", "none"}
     /\ t_response.kind = "return") =>
        /\ t_response.body.contract_met = TRUE
        /\ t_response.body.contract_reason = <<"OK">>

\* C37 witness: without lists, a patched run that ended with a failed test
\* is answered with the contract met.
C37_Witness ==
    /\ t_pc = "done"
    /\ ~t_req.fail_to_pass /\ ~t_req.pass_to_pass
    /\ t_req.patch = "diff"
    /\ t_response.kind = "return"
    /\ t_stats # NoStats
    /\ t_response.body.failed > 0
    /\ t_response.body.contract_met

\* the larger of two numbers
Larger(a, b) == IF a >= b THEN a ELSE b

\* the most test-command invocations each adapter may make for one request
InvocationBound(path) ==
    CASE path = "pytest_files" -> 2
      [] path = "pytest_nodes" -> 1 + Larger(1, files_and_names)
      [] OTHER -> 3

\* C38: the number of test-command invocations of one /test request is
\* bounded: at most 2 for pytest by files, at most 1 + max(1, number of
\* distinct files among the node ids) for pytest by node ids, at most 3 on the
\* Django path (first run, re-run after an install, run with converted
\* labels); the adapters install at most once, the re-run is the second
\* invocation, the file-by-file runs are at most one per file, and the run
\* with converted labels is the last one.
C38_InvocationsBounded ==
    t_runs # <<>> =>
        /\ Len(t_runs) <= InvocationBound(ExecPath(t_req, t_targets))
        /\ t_installs <= 1
        /\ \A i \in DOMAIN t_runs :
            /\ t_runs[i].what = "first" <=> i = 1
            /\ t_runs[i].what = "rerun" => i = 2
            /\ t_runs[i].what = "fallback" =>
                    i - 1 <= files_and_names /\ ExecPath(t_req, t_targets) = "pytest_nodes"
            /\ t_runs[i].what = "converted" =>
                    i = Len(t_runs) /\ ExecPath(t_req, t_targets) = "django"

\* C38 witness: a request by node ids whose collection failed is answered
\* after the first run and one file-by-file run for each of its files.
C38_Witness ==
    /\ t_pc = "done"
    /\ ExecPath(t_req, t_targets) = "pytest_nodes"
    /\ files_and_names = MaxNodeFiles
    /\ Len(t_runs) = 1 + MaxNodeFiles

\* a bordered summary line that reports at least one failed test
ReportsFailed(line) ==
    /\ line \in SummaryLines
    /\ \E k \in DOMAIN line :
        /\ line[k] \in {"failed", "failed,"}
        /\ k - 1 \in DOMAIN line
        /\ IsNumeral(line[k - 1])
        /\ NumeralValue[line[k - 1]] >= 1

\* C33: a generic-runner run whose summary line reports at least one failed
\* test is never classified as passed by the two-phase verifier's criterion,
\* also when the summary lists further comma-separated items and the output
\* has a "collected N items" line.
C33_FailedRunNeverPassed ==
    (/\ p_pc = "returned"
     /\ p_parser = "pytest"
     /\ \E i \in DOMAIN p_output : ReportsFailed(p_output[i])) =>
        ~RunPassed(p_stats)

\* how many of the calls submitted in a round are for an instance
AttemptsIn(fs, instance) == Cardinality({i \in DOMAIN fs : fs[i].instance = instance})

\* the instances of the entries of a list, in the order of the list
InstancesIn(entries) == [k \in DOMAIN entries |-> entries[k].instance]

\* C34: a batch has a single retry round, so each instance is attempted at
\* most twice (once in the first round, at most once as a retry), whatever
\* its retry returned and also with max_retries >= 2; with max_retries >= 1
\* every instance whose first attempt failed gets exactly one retry
\* submission, and with max_retries = 0 none is submitted.
C34_SingleRetryRound ==
    b_pc \in {"retry_round", "done"} =>
        /\ \A k \in DOMAIN instances :
            /\ AttemptsIn(futures, instances[k]) = 1
            /\ AttemptsIn(retry_futures, instances[k]) <= 1
            /\ AttemptsIn(failed_instances, instances[k]) <= 1
        /\ max_retries >= 1 => InstancesIn(retry_futures) = InstancesIn(failed_instances)
        /\ max_retries = 0 => retry_futures = <<>>
        /\ Len(retry_results) <= Len(retry_futures)

\* C34 witness: with max_retries = 2 a batch is summarised in which a retry
\* came back invalid, and no further attempt was made for it.
C34_Witness ==
    /\ b_pc = "done"
    /\ max_retries = MaxRetriesArg
    /\ MaxRetriesArg >= 2
    /\ \E k \in DOMAIN retry_results : ~Get(retry_results[k], "valid", FALSE)
    /\ \E k \in DOMAIN retry_futures :
        AttemptsIn(futures, retry_futures[k].instance)
            + AttemptsIn(retry_futures, retry_futures[k].instance) = 2

\* a call of a round that has been submitted and has not returned yet
Unfinished(f) == f.state \in {"queued", "running"}

\* C35: the retry round starts only after every first-round attempt has
\* finished, the attempts whose result wait timed out included: while a
\* retry is queued or runs, no first-round attempt is queued or running, so
\* no retry of an instance runs at the same time as its first attempt.
C35_RetryAfterFirstRound ==
    /\ b_pc \in {"retry_round", "done"} =>
            \A i \in DOMAIN futures : ~Unfinished(futures[i])
    /\ \A i \in DOMAIN futures, j \in DOMAIN retry_futures :
            futures[i].instance = retry_futures[j].instance =>
                ~(Unfinished(futures[i]) /\ retry_futures[j].state = "running")
    /\ b_pc \notin {"retry_round", "done"} => retry_futures = <<>>

\* C35 witness: the retry of an instance whose first-round wait timed out
\* runs, and its first attempt has returned by then.
C35_Witness ==
    /\ b_pc = "retry_round"
    /\ \E k \in DOMAIN failed_instances, j \in DOMAIN retry_futures, i \in DOMAIN futures :
        /\ failed_instances[k].result = [error |-> "TimeoutError"]
        /\ retry_futures[j].instance = failed_instances[k].instance
        /\ retry_futures[j].state = "running"
        /\ futures[i].instance = failed_instances[k].instance
        /\ futures[i].state = "returned"

\* what validate_all and _retry_failed collect into
Collected == <<all_results, failed_instances, processed_count, retry_results>>

\* a step in which an attempt of a round is taken up by a thread or returns
AttemptStep(fs, fs_next) ==
    /\ fs # <<>>
    /\ fs_next # fs

\* of the calls of a round, exactly one changes, and only in its state and
\* its returned dict
OneAttemptMoves(fs, fs_next) ==
    /\ DOMAIN fs_next = DOMAIN fs
    /\ \E i \in DOMAIN fs :
        /\ fs_next[i] # fs[i]
        /\ fs_next[i].instance = fs[i].instance
        /\ fs_next[i].worker_url = fs[i].worker_url
        /\ fs_next[i].retry_count = fs[i].retry_count
        /\ \A j \in DOMAIN fs : j # i => fs_next[j] = fs[j]

\* a list grows by one element at its end, or stays as it is
AppendedOrSame(list, list_next) ==
    \/ list_next = list
    \/ Len(list_next) = Len(list) + 1 /\ SubSeq(list_next, 1, Len(list)) = list

\* the dicts of the first round that the collecting loop was handed
HandedOver == {i \in 1..(next_future - 1) : futures[i].result # NoResult}

\* nothing that was appended is missing
NoAppendLost ==
    b_pc \notin {"idle", "start"} =>
        /\ processed_count = next_future - 1
        /\ Len(failed_instances) <= processed_count
        /\ Len(retry_results) =
                Cardinality({i \in DOMAIN retry_futures : retry_futures[i].state = "collected"})
        /\ \A i \in DOMAIN retry_futures :
                retry_futures[i].state = "collected" =>
                    retry_futures[i].result \in Range(retry_results)
        /\ \A i \in HandedOver : futures[i].result \in Range(all_results)
        /\ Len(all_results) =
                Cardinality(HandedOver) + (IF b_pc = "done" THEN Len(retry_results) ELSE 0)
        /\ processed_count =
                Cardinality(HandedOver)
                + Cardinality({k \in DOMAIN failed_instances :
                                    failed_instances[k].result = [error |-> "TimeoutError"]})

\* the steps of the attempts leave what is collected alone, and what is
\* collected changes by appends of the collecting loops only
CollectedByCoordinatorOnly ==
    /\ AttemptStep(futures, futures') =>
            /\ OneAttemptMoves(futures, futures')
            /\ UNCHANGED <<Collected, retry_futures>>
    /\ AttemptStep(retry_futures, retry_futures') =>
            /\ OneAttemptMoves(retry_futures, retry_futures')
            /\ UNCHANGED <<all_results, failed_instances, processed_count, futures>>
            /\ AppendedOrSame(retry_results, retry_results')
    /\ AppendedOrSame(failed_instances, failed_instances')
    /\ processed_count' \in {processed_count, processed_count + 1}
    /\ \/ AppendedOrSame(all_results, all_results')
       \/ b_pc' = "done" /\ all_results' = all_results \o retry_results

\* C32: result collection is free of races: the result lists, the
\* failed-instance list and processed_count are written only by the
\* coordinating thread's collecting steps, a step of an attempt changes that
\* attempt's own future and nothing another attempt has, and no append is
\* lost under any interleaving of the attempts.
C32_CollectionRaceFree ==
    []NoAppendLost /\ [][CollectedByCoordinatorOnly]_vars

\* C32 witness: one attempt's dict has been collected while another attempt
\* of the same round is still running.
C32_Witness ==
    /\ b_pc = "first_round"
    /\ processed_count >= 1
    /\ all_results # <<>>
    /\ \E i \in DOMAIN futures : futures[i].state = "running"

\* the other orders in which the entries of a list could have been appended
Reordered(list) ==
    {[i \in DOMAIN list |-> list[f[i]]] : f \in Permutations(DOMAIN list)} \ {list}

\* the results of the first round, which are collected in submission order
FirstRoundResults == SubSeq(all_results, 1, Len(all_results) - Len(retry_results))

\* the batch is summarised, its retries all ran at the same time, so that
\* they could have finished in any order, and they finished in the order in
\* which they were submitted: the run that every other order of the same
\* outcomes is compared with
SummarisedAfterConcurrentRetries ==
    /\ b_pc = "done"
    /\ Len(retry_futures) <= Len(worker_urls)
    /\ Len(retry_results) = Len(retry_futures)
    /\ \A k \in DOMAIN retry_results :
            retry_results[k].instance_id = retry_futures[k].instance.instance_id

\* the summaries of the same results with the retries finished in another
\* order
OtherSummaries ==
    {GenerateSummary(FirstRoundResults \o finished) : finished \in Reordered(retry_results)}

\* how often an instance id is listed
TimesListed(ids, id) == Cardinality({k \in DOMAIN ids : ids[k] = id})

SameCounts(one, other) ==
    /\ one.total_instances = other.total_instances
    /\ one.valid_instances = other.valid_instances
    /\ one.invalid_instances = other.invalid_instances
    /\ one.by_worker = other.by_worker
    /\ Range(one.results) = Range(other.results)

\* C31: for the same outcomes of the attempts, the summary's total, valid and
\* invalid counts, its per-repository table, its per-worker counts and the
\* set of its results are the same for every order in which the concurrent
\* attempts finish: the summary of every other order is the same as that of
\* the retries finishing in submission order.
C31_SummaryOrderIndependent ==
    SummarisedAfterConcurrentRetries =>
        \A other \in OtherSummaries :
            /\ SameCounts(summary, other)
            /\ summary.by_repository = other.by_repository

\* C31, amended: as above, with the per-repository table the same in its
\* total and valid counts and in the instance ids its errors list holds, each
\* as often, while the order of the ids in an errors list may differ.
C31_SummaryOrderIndependentUpToErrorOrder ==
    SummarisedAfterConcurrentRetries =>
        \A other \in OtherSummaries :
            /\ SameCounts(summary, other)
            /\ DOMAIN summary.by_repository = DOMAIN other.by_repository
            /\ \A r \in DOMAIN summary.by_repository :
                \A mine \in {summary.by_repository[r]}, theirs \in {other.by_repository[r]} :
                    /\ mine.total = theirs.total
                    /\ mine.valid = theirs.valid
                    /\ Len(mine.errors) = Len(theirs.errors)
                    /\ \A id \in Range(mine.errors) \cup Range(theirs.errors) :
                        TimesListed(mine.errors, id) = TimesListed(theirs.errors, id)

\* C31 witness: a batch is summarised after two retries that ran at the same
\* time and returned different dicts, one of them valid.
C31_Witness ==
    /\ SummarisedAfterConcurrentRetries
    /\ Len(retry_results) = 2
    /\ retry_results[1] # retry_results[2]
    /\ \E k \in DOMAIN retry_results : Get(retry_results[k], "valid", FALSE)
    /\ \E k \in DOMAIN retry_results : ~Get(retry_results[k], "valid", FALSE)

\* the first request came back, and not with status 200
FirstRequestFailed ==
    /\ response1 # NoResponse
    /\ (Raised(response1) \/ response1.status # 200)

\* C36: in an attempt the with-fix request is sent only after the test-only
\* request has returned status 200; after a first request that failed
\* (another status, or an exception) no second request is sent in that
\* attempt; both requests go to the worker the attempt was given, the first
\* with the test patch and the second with the combined patch.
C36_SecondRequestAfterFirstSucceeded ==
    v_pc # "idle" =>
        /\ Len(v_sent) <= 2
        /\ Len(v_sent) = 2 => (~Raised(response1) /\ response1.status = 200)
        /\ FirstRequestFailed => Len(v_sent) = 1
        /\ response2 # NoResponse => Len(v_sent) = 2
        /\ \A k \in DOMAIN v_sent : v_sent[k].url = v_worker
        /\ Len(v_sent) >= 1 => v_sent[1].patch = "test_patch"
        /\ Len(v_sent) = 2 => v_sent[2].patch = "patch + test_patch"

\* C36 witness: an attempt has ended after both requests were sent, the
\* first of which came back with status 200.
C36_Witness ==
    /\ v_pc = "done"
    /\ Len(v_sent) = 2
    /\ response1.status = 200
    /\ v_sent[1].url = v_sent[2].url

\* the answer of the tester service was read: it came with status 200
EvaluatedAnswer ==
    /\ e_pc = "done"
    /\ e_response.kind = "response"
    /\ e_response.status = 200

\* C39: for every answer's (collected, passed, failed, errors), each a
\* non-negative integer or left out and then read as 0, evaluate_patch_docker
\* sets passed = true exactly when failed = 0 and errors = 0 and (passed > 0
\* or collected > 0), which is the dispatcher's criterion for a passing run;
\* an answer that is not read leaves passed = false.
C39_EvaluatorAgreesWithDispatcher ==
    /\ EvaluatedAnswer =>
        LET counts == e_response.body
        IN  /\ e_result.passed =
                    (/\ Get(counts, "failed", 0) = 0
                     /\ Get(counts, "errors", 0) = 0
                     /\ (Get(counts, "passed", 0) > 0 \/ Get(counts, "collected", 0) > 0))
            /\ e_result.passed = RunPassed(counts)
    /\ (e_pc = "done" /\ ~EvaluatedAnswer) => e_result.passed = FALSE

\* C39 witness: an answer with collected > 0 and no passed, failed or errors
\* count is evaluated as passed.
C39_Witness ==
    /\ EvaluatedAnswer
    /\ Get(e_response.body, "collected", 0) > 0
    /\ Get(e_response.body, "passed", 0) = 0
    /\ "failed" \in DOMAIN e_response.body
    /\ e_result.passed = TRUE

====
